---------------------------- MODULE Spec2Model ----------------------------
(***************************************************************************)
(* Model of MJM_Sub_Invoice_Extract: the pandas filter pipeline of         *)
(* GoogleClient (src/src/google_client.py), the report builder of          *)
(* DataProcessor (src/src/data_processor.py) and the threads of            *)
(* InvoiceApp (src/src/gui_app.py).                                        *)
(*                                                                         *)
(* Text is a sequence of one-character strings, so that strip, lower and   *)
(* pattern matching are computed and not assumed.  A missing cell (pandas  *)
(* NaN) is the one-element sequence NaN, which is no text.                 *)
(***************************************************************************)
EXTENDS Integers, Sequences, FiniteSets, TLC

VARIABLES
    df,          \* the DataFrame object the caller passes to a filter
    df_in,       \* its cells at the moment of the call
    out,         \* what the call under way returned (or the exception it raised)
    sub_name,    \* the subcontractor_name argument of filter_by_subcontractor
    pc,          \* position of the caller of the function under test
    disk,        \* the directories and the files on disk
    today,       \* the date datetime.now() gives
    args,        \* the arguments of the last DataProcessor call
    calls,       \* number of generate_pdf calls made
    raw_data,                \* InvoiceApp.raw_data
    filtered_data,           \* InvoiceApp.filtered_data
    display_data,            \* InvoiceApp.display_data
    current_images,          \* InvoiceApp.current_images: the list object it names
    lists,                   \* the list objects made so far, by identity
    current_image_index,     \* InvoiceApp.current_image_index
    selected_subcontractor,  \* InvoiceApp.selected_subcontractor
    workers,                 \* the background threads started so far
    after_queue,             \* callbacks handed to root.after, in order
    status,                  \* text of status_label
    tree,                    \* rows of the table widget and text of total_label
    image_view,              \* image_label and image_counter_label
    dialog                   \* the last message box shown

filterVars == <<df, df_in, sub_name>>

reportVars == <<disk, today, args, calls>>

guiVars ==
    <<raw_data, filtered_data, display_data, current_images, lists,
      current_image_index, selected_subcontractor, workers, after_queue,
      status, tree, image_view, dialog>>

vars == <<filterVars, out, pc, reportVars, guiVars>>

-----------------------------------------------------------------------------
(* Bounds                                                                  *)

MaxRows == 2

-----------------------------------------------------------------------------
(* Text                                                                    *)

NaN == <<"<NaN>">>

UpperCase ==
    <<"A","B","C","D","E","F","G","H","I","J","K","L","M",
      "N","O","P","Q","R","S","T","U","V","W","X","Y","Z">>

LowerCase ==
    <<"a","b","c","d","e","f","g","h","i","j","k","l","m",
      "n","o","p","q","r","s","t","u","v","w","x","y","z">>

Digits == <<"0","1","2","3","4","5","6","7","8","9">>

IsSpace(c) == c \in {" ", "\t", "\n", "\r"}

LowerChar(c) ==
    IF \E i \in 1..26 : UpperCase[i] = c
        THEN LowerCase[CHOOSE i \in 1..26 : UpperCase[i] = c]
        ELSE c

\* str.lower()
str_lower(s) == [i \in 1..Len(s) |-> LowerChar(s[i])]

RECURSIVE lstrip(_)
lstrip(s) ==
    IF s = <<>> THEN <<>>
    ELSE IF IsSpace(Head(s)) THEN lstrip(Tail(s)) ELSE s

RECURSIVE rstrip(_)
rstrip(s) ==
    IF s = <<>> THEN <<>>
    ELSE IF IsSpace(s[Len(s)]) THEN rstrip(SubSeq(s, 1, Len(s) - 1)) ELSE s

\* str.strip()
str_strip(s) == rstrip(lstrip(s))

\* pd.isna / pd.notna on one cell
isna(v) == v = NaN

\* Series.astype(str) on one cell: a missing value becomes the text 'nan'
astype_str(v) == IF isna(v) THEN <<"n","a","n">> ELSE v

DigitValue(c) == (CHOOSE i \in 1..10 : Digits[i] = c) - 1

IsDigit(c) == \E i \in 1..10 : Digits[i] = c


-----------------------------------------------------------------------------
(* DataFrame: the set of column names and the rows in order.  A row keeps  *)
(* its index label (its position in the sheet) and one cell per column.    *)

Frame(columns, rows) == [columns |-> columns, rows |-> rows]

MkRow(index, cells) == [index |-> index, cells |-> cells]

\* df[mask]: the rows whose mask is TRUE, in order
RECURSIVE SelectRows(_, _)
SelectRows(rows, mask) ==
    IF rows = <<>> THEN <<>>
    ELSE IF mask[1]
        THEN <<Head(rows)>> \o SelectRows(Tail(rows), Tail(mask))
        ELSE SelectRows(Tail(rows), Tail(mask))

\* df[col]: the cells of one column, in row order
Column(d, col) == [i \in 1..Len(d.rows) |-> d.rows[i].cells[col]]

\* df[col] = series: column assignment, in place on the frame object
AssignColumn(d, col, series) ==
    [d EXCEPT !.rows =
        [i \in 1..Len(d.rows) |-> [d.rows[i] EXCEPT !.cells[col] = series[i]]]]

\* the positions of a series
MapIndex(series) == 1..Len(series)

-----------------------------------------------------------------------------
(* GoogleClient.filter_invoice_data                                        *)

\* mutant: the approval text is trimmed but not lower-cased
NormApproval_NoLower(v) == str_strip(astype_str(v))

NormApproval(v) == str_lower(str_strip(astype_str(v)))
NormStatus(v) == str_strip(astype_str(v))
NormName(v) == str_lower(str_strip(astype_str(v)))

ApprovedValues ==
    { <<"a","p","r","o","b","a","d","o">>, <<"a","p","p","r","o","v","e","d">> }

UnpaidValues == { <<>>, <<"n","a","n">>, <<"N","o","n","e">> }

\* line 100, on a normalized cell
approved_mask(v) == v \in ApprovedValues

\* mutant: the unpaid test is inverted
unpaid_mask_Inverted(v) == ~((v \in UnpaidValues \/ isna(v)) \/ str_strip(v) = <<>>)

\* lines 101-105, on a normalized cell
unpaid_mask(v) == (v \in UnpaidValues \/ isna(v)) \/ str_strip(v) = <<>>

\* pd.to_datetime(errors='coerce') on one cell, for ISO dates YYYY-MM-DD:
\* the day number YYYYMMDD, or NaT for anything else
NaT == -1

to_datetime(v) ==
    IF /\ Len(v) = 10
       /\ v[5] = "-" /\ v[8] = "-"
       /\ \A i \in {1,2,3,4,6,7,9,10} : IsDigit(v[i])
    THEN LET y == 1000 * DigitValue(v[1]) + 100 * DigitValue(v[2])
                  + 10 * DigitValue(v[3]) + DigitValue(v[4])
             m == 10 * DigitValue(v[6]) + DigitValue(v[7])
             d == 10 * DigitValue(v[9]) + DigitValue(v[10])
         IN IF m \in 1..12 /\ d \in 1..31 THEN 10000 * y + 100 * m + d ELSE NaT
    ELSE NaT

TimestampCol == "Invoice Timestamp"

\* DataFrame.sort_values(col) with its defaults (kind='quicksort',
\* na_position='last'): every order of the rows that is ascending in the key
\* with the NaT rows last.  quicksort is not a stable sort, so rows of equal
\* key may come out in either order; the NaT rows are set aside before the
\* sort and appended in their original order.
SortOrders(rows) ==
    LET n == Len(rows)
        key(i) == rows[i].cells[TimestampCol]
    IN { p \in [1..n -> 1..n] :
            /\ \A i, j \in 1..n : i # j => p[i] # p[j]
            /\ \A i, j \in 1..n : i < j =>
                  \/ key(p[j]) = NaT /\ key(p[i]) # NaT
                  \/ key(p[j]) = NaT /\ key(p[i]) = NaT /\ p[i] < p[j]
                  \/ key(p[j]) # NaT /\ key(p[i]) # NaT /\ key(p[i]) <= key(p[j]) }

\* mutant: the rows stay in the order of the input
sort_values_Unsorted(rows) == { rows }

sort_values(rows) == { [i \in 1..Len(rows) |-> rows[p[i]]] : p \in SortOrders(rows) }

FilterError == <<"F","a","i","l","e","d"," ","t","o"," ","f","i","l","t","e","r"," ","d","a","t","a">>

Raised(msg) == [kind |-> "raised", msg |-> msg]
Returned(d) == [kind |-> "returned", df |-> d]
NoCall == [kind |-> "none"]

\* The three column assignments of lines 95-97, each on the caller's frame;
\* a missing column raises KeyError at its line, after the earlier assignments.
NormalizeColumns(d) ==
    IF "Approval Status" \notin d.columns THEN [df |-> d, ok |-> FALSE]
    ELSE LET a == Column(d, "Approval Status")
             d1 == AssignColumn(d, "Approval Status",
                       [i \in MapIndex(a) |-> NormApproval(a[i])])
         IN IF "Invoice Status" \notin d.columns THEN [df |-> d1, ok |-> FALSE]
            ELSE LET st == Column(d1, "Invoice Status")
                     d2 == AssignColumn(d1, "Invoice Status",
                               [i \in MapIndex(st) |-> NormStatus(st[i])])
                 IN IF "Name" \notin d.columns THEN [df |-> d2, ok |-> FALSE]
                    ELSE LET nm == Column(d2, "Name")
                         IN [df |-> AssignColumn(d2, "Name",
                                       [i \in MapIndex(nm) |-> NormName(nm[i])]),
                             ok |-> TRUE]

\* lines 100-107: df[approved_mask & unpaid_mask].copy()
FilteredRows(d) ==
    SelectRows(d.rows,
        [i \in 1..Len(d.rows) |->
            /\ approved_mask(d.rows[i].cells["Approval Status"])
            /\ unpaid_mask(d.rows[i].cells["Invoice Status"])])

\* lines 110-114: parse the timestamp column of the copy and sort the copy
SortedByTimestamp(columns, rows) ==
    IF TimestampCol \in columns
        THEN sort_values([i \in 1..Len(rows) |->
                [rows[i] EXCEPT !.cells[TimestampCol] = to_datetime(@)]])
        ELSE { rows }

\* mutant: a frame without a status column is answered with no rows
filter_invoice_data_NoRaise(d) ==
    LET n == NormalizeColumns(d)
    IN IF ~n.ok
        THEN { [df |-> n.df, out |-> Returned(Frame(d.columns, <<>>))] }
        ELSE { [df |-> n.df, out |-> Returned(Frame(d.columns, rows))] :
                 rows \in SortedByTimestamp(d.columns, FilteredRows(n.df)) }

\* Every outcome of filter_invoice_data(d): the caller's frame afterwards and
\* the value returned or the exception raised.
filter_invoice_data(d) ==
    LET n == NormalizeColumns(d)
    IN IF ~n.ok
        THEN { [df |-> n.df, out |-> Raised(FilterError)] }
        ELSE { [df |-> n.df, out |-> Returned(Frame(d.columns, rows))] :
                 rows \in SortedByTimestamp(d.columns, FilteredRows(n.df)) }

-----------------------------------------------------------------------------
(* GoogleClient.filter_by_subcontractor                                    *)

SubcontractorError ==
    <<"F","a","i","l","e","d"," ","t","o"," ","f","i","l","t","e","r"," ",
      "b","y"," ","s","u","b","c","o","n","t","r","a","c","t","o","r">>

\* re.compile on a pattern of ordinary characters, '.' and '(': a group that
\* is opened and never closed is rejected ("missing ), unterminated subpattern")
re_compiles(pat) ==
    Cardinality({ i \in 1..Len(pat) : pat[i] = "(" }) =
    Cardinality({ i \in 1..Len(pat) : pat[i] = ")" })

\* one pattern character against one character of the text, re.IGNORECASE:
\* '.' is any character but a newline, anything else is itself
re_char(p, c) ==
    IF p = "." THEN c # "\n" ELSE LowerChar(p) = LowerChar(c)

\* re.search(pat, text, re.IGNORECASE) for a pattern without groups
re_search(pat, text) ==
    \E pos \in 0..Len(text) :
        /\ pos + Len(pat) <= Len(text)
        /\ \A i \in 1..Len(pat) : re_char(pat[i], text[pos + i])

\* Series.str on the Name column: a non-empty column whose every cell is NaN
\* has dtype float64, and the accessor raises AttributeError
str_accessor_ok(rows) ==
    rows = <<>> \/ \E i \in 1..Len(rows) : ~isna(rows[i].cells["Name"])

\* Series.str.contains(pat, case=False, na=False) on one cell (regex=True is
\* the default): a missing cell is no match
str_contains(cell, pat) ==
    IF isna(cell) THEN FALSE ELSE re_search(pat, cell)

\* lines 123-131: the caller's frame afterwards and the outcome
filter_by_subcontractor(d, subcontractor_name) ==
    LET pat == str_lower(subcontractor_name)
    IN IF \/ "Name" \notin d.columns
          \/ ~str_accessor_ok(d.rows)
          \/ ~re_compiles(pat)
        THEN [df |-> d, out |-> Raised(SubcontractorError)]
        ELSE [df |-> d,
              out |-> Returned(Frame(d.columns,
                  SelectRows(d.rows,
                      [i \in 1..Len(d.rows) |->
                          str_contains(d.rows[i].cells["Name"], pat)])))]

\* credentials.py, lines 40-43
SUBCONTRACTORS ==
    << <<"p","e","l","i","c","o">>,
       <<"h","t","i","n">>,
       <<"f","r","a","n","k">>,
       <<"h","a","r","o","l","d">>,
       <<"m","a","r","c","o">>,
       <<"g","u","s","t","a","v","o">>,
       <<"a","n","t","o","n","i","o">>,
       <<"n","a","h","u","n">>,
       <<"e","d","g","a","r">>,
       <<"2","4","/","7"," ","t","e","c","h">>,
       <<"j","o","s","u","e"," ","c","r","u","z">> >>

-----------------------------------------------------------------------------
(* Text of numbers and dates                                               *)

\* str(n) for n >= 0
RECURSIVE IntText(_)
IntText(n) ==
    IF n < 10 THEN <<Digits[n + 1]>>
    ELSE IntText(n \div 10) \o <<Digits[(n % 10) + 1]>>

\* two digits, zero padded (%m, %d, and the decimals of .2f)
Pad2(n) == IF n < 10 THEN <<"0">> \o IntText(n) ELSE IntText(n)

\* f"${x:.2f}" for an amount of whole cents
FormatMoney(cents) ==
    LET neg == cents < 0
        abs == IF neg THEN 0 - cents ELSE cents
    IN <<"$">> \o (IF neg THEN <<"-">> ELSE <<>>)
         \o IntText(abs \div 100) \o <<".">> \o Pad2(abs % 100)

\* datetime.strftime("%Y-%m-%d")
strftime_date(date) ==
    IntText(date.year) \o <<"-">> \o Pad2(date.month) \o <<"-">> \o Pad2(date.day)

IsLetter(c) == \E i \in 1..26 : UpperCase[i] = c \/ LowerCase[i] = c

UpperChar(c) ==
    IF \E i \in 1..26 : LowerCase[i] = c
        THEN UpperCase[CHOOSE i \in 1..26 : LowerCase[i] = c]
        ELSE c

\* str.title(): a letter that follows a non-letter is upper-cased, any other
\* letter lower-cased
str_title(t) ==
    [i \in 1..Len(t) |->
        IF i = 1 \/ ~IsLetter(t[i - 1]) THEN UpperChar(t[i]) ELSE LowerChar(t[i])]

-----------------------------------------------------------------------------
(* DataProcessor.get_table_data_for_pdf                                    *)

Str(t) == [kind |-> "str", text |-> t]
Paragraph(t, style) == [kind |-> "Paragraph", text |-> t, style |-> style]
Spacer(w, h) == [kind |-> "Spacer", width |-> w, height |-> h]
Table(data) == [kind |-> "Table", data |-> data]

\* line 40
headers ==
    << Str(<<"L","o","c","a","t","i","o","n">>),
       Str(<<"I","n","v","o","i","c","e"," ","#">>),
       Str(<<"W","O"," ","#">>),
       Str(<<"T","o","t","a","l">>),
       Str(<<"I","n","v","o","i","c","e"," ","L","i","n","k">>) >>

TotalLabel == <<"T","O","T","A","L",":">>

\* lines 50-57: the link cell of one row
link_paragraph(invoice_link) ==
    IF ~isna(invoice_link) /\ invoice_link # <<>>
        THEN Paragraph(<<"<","a"," ","h","r","e","f","=","\"">> \o invoice_link
                        \o <<"\"",">","V","i","e","w"," ","I","n","v","o","i","c","e","<","/","a",">">>,
                       "Normal")
        ELSE Str(<<"N","o"," ","L","i","n","k">>)

\* lines 59-65: one data row of the table
table_row(cells) ==
    << Str(astype_str(cells["Location"])),
       Str(astype_str(cells["Invoice #"])),
       Str(astype_str(cells["WO #"])),
       Str(FormatMoney(cells["Total"])),
       link_paragraph(cells["Invoice Link"]) >>

\* display_df['Total'].sum(), in cents
RECURSIVE total_sum(_)
total_sum(rows) ==
    IF rows = <<>> THEN 0 ELSE Head(rows).cells["Total"] + total_sum(Tail(rows))

\* mutant: the total row is filled under the Total header
total_row_UnderTotal(rows) ==
    << Str(<<>>), Str(<<>>), Str(TotalLabel), Str(FormatMoney(total_sum(rows))), Str(<<>>) >>

\* line 69
total_row(rows) ==
    << Str(<<>>), Str(<<>>), Str(<<>>), Str(TotalLabel), Str(FormatMoney(total_sum(rows))) >>

\* lines 33-71
get_table_data_for_pdf(display_df) ==
    IF display_df.rows = <<>> THEN <<>>
    ELSE <<headers>>
         \o [i \in 1..Len(display_df.rows) |-> table_row(display_df.rows[i].cells)]
         \o <<total_row(display_df.rows)>>

-----------------------------------------------------------------------------
(* DataProcessor.optimize_image_for_pdf                                    *)
(*                                                                         *)
(* An image is its size in pixels, its EXIF orientation code, its mode and *)
(* whether its pixel data can be decoded (PIL opens lazily: a truncated    *)
(* file raises at the first operation that reads the pixels).              *)

NoImage == [kind |-> "None"]

PilImage(w, h, orientation, mode, decodes) ==
    [kind |-> "Image", width |-> w, height |-> h,
     orientation |-> orientation, mode |-> mode, decodes |-> decodes]

\* lines 85-90: rotate(180) keeps the size, rotate(270) and rotate(90) with
\* expand=True swap width and height
exif_rotate(image) ==
    IF image.orientation \in {6, 8}
        THEN [image EXCEPT !.width = image.height, !.height = image.width,
                           !.orientation = 1]
        ELSE [image EXCEPT !.orientation = 1]

\* int(a * (num / a')) on the sizes used here: the floor of the exact quotient
ScaledInt(a, num, den) == (a * num) \div den

\* min(num1/den1, num2/den2) as a pair <<num, den>>
MinRatio(r1, r2) == IF r1[1] * r2[2] <= r2[1] * r1[2] THEN r1 ELSE r2

\* image.resize((int(w * scale), int(h * scale))) for scale = r[1] / r[2];
\* ok is FALSE when resize raises (a zero size, or pixels that do not decode)
resize_by(image, r) ==
    LET new_width == ScaledInt(image.width, r[1], r[2])
        new_height == ScaledInt(image.height, r[1], r[2])
    IN IF new_width = 0 \/ new_height = 0 \/ ~image.decodes
        THEN [ok |-> FALSE, image |-> image]
        ELSE [ok |-> TRUE,
              image |-> [image EXCEPT !.width = new_width, !.height = new_height]]

\* lines 125-131, on the image as resized so far
second_resize(image) ==
    IF image.width > 600 \/ image.height > 800
        THEN LET scale_factor == MinRatio(<<600, image.width>>, <<800, image.height>>)
             IN IF scale_factor[1] < scale_factor[2]
                 THEN resize_by(image, scale_factor).image
                 ELSE image
        ELSE image

\* lines 73-137 with max_width=800, max_height=1000; any exception is caught
\* at line 135 and the image as it is at that moment is returned
optimize_image_for_pdf(image) ==
    IF image = NoImage THEN NoImage
    ELSE IF image.orientation \in {3, 6, 8} /\ ~image.decodes THEN image
    ELSE LET rotated == IF image.orientation \in {3, 6, 8}
                            THEN exif_rotate(image) ELSE image
         IN IF rotated.mode # "RGB" /\ ~rotated.decodes THEN rotated
            ELSE LET rgb == [rotated EXCEPT !.mode = "RGB"]
                     scale == MinRatio(MinRatio(<<800, rgb.width>>, <<1000, rgb.height>>),
                                       <<1, 1>>)
                 IN IF scale[1] < scale[2]
                     THEN LET first == resize_by(rgb, scale)
                          IN IF first.ok THEN second_resize(first.image) ELSE rgb
                     ELSE second_resize(rgb)

-----------------------------------------------------------------------------
(* GoogleClient.process_location and prepare_display_data                  *)

\* text[i..] starts with lit, letter case ignored
StartsWithAt(text, i, lit) ==
    /\ i + Len(lit) - 1 <= Len(text)
    /\ \A k \in 1..Len(lit) : LowerChar(text[i + k - 1]) = LowerChar(lit[k])

\* \s*: the first position at or after i that holds no white space
RECURSIVE SkipSpaces(_, _)
SkipSpaces(text, i) ==
    IF i <= Len(text) /\ IsSpace(text[i]) THEN SkipSpaces(text, i + 1) ELSE i

\* the pattern of line 139 matches at position i:
\* ,\s*Washington,\s*District of Columbia\s*\d{5}.*
LocationPatternAt(text, i) ==
    /\ StartsWithAt(text, i, <<",">>)
    /\ LET w == SkipSpaces(text, i + 1)
       IN /\ StartsWithAt(text, w, <<"W","a","s","h","i","n","g","t","o","n",",">>)
          /\ LET d == SkipSpaces(text, w + 11)
                 lit == <<"D","i","s","t","r","i","c","t"," ","o","f"," ",
                          "C","o","l","u","m","b","i","a">>
             IN /\ StartsWithAt(text, d, lit)
                /\ LET z == SkipSpaces(text, d + Len(lit))
                   IN /\ z + 4 <= Len(text)
                      /\ \A k \in 0..4 : IsDigit(text[z + k])

\* .*: the first position at or after i that holds a line feed, which "."
\* does not match
RECURSIVE LineEnd(_, _)
LineEnd(text, i) ==
    IF i <= Len(text) /\ text[i] # "\n" THEN LineEnd(text, i + 1) ELSE i

\* the position after a match that starts at i: the zip's five digits and
\* the rest of their line
LocationMatchEnd(text, i) ==
    LET w == SkipSpaces(text, i + 1)
        d == SkipSpaces(text, w + 11)
        z == SkipSpaces(text, d + 20)
    IN LineEnd(text, z + 5)

\* re.sub(pattern, '', location): every match is removed, from left to right
RECURSIVE re_sub_location(_, _)
re_sub_location(text, i) ==
    IF i > Len(text) THEN <<>>
    ELSE IF LocationPatternAt(text, i)
        THEN re_sub_location(text, LocationMatchEnd(text, i))
        ELSE <<text[i]>> \o re_sub_location(text, i + 1)

\* lines 133-141
process_location(location) ==
    IF isna(location) \/ location = <<>> THEN <<>>
    ELSE str_strip(re_sub_location(location, 1))

\* the value of a run of digits
RECURSIVE DigitsValue(_)
DigitsValue(t) ==
    IF t = <<>> THEN 0
    ELSE 10 * DigitsValue(SubSeq(t, 1, Len(t) - 1)) + DigitValue(t[Len(t)])

\* pd.to_numeric(errors='coerce').fillna(0) on one cell, in cents, for plain
\* decimal texts with at most two decimals: a text that is no number is
\* coerced to NaN and filled with 0
to_numeric(v) ==
    LET t == str_strip(v)
        neg == t # <<>> /\ Head(t) = "-"
        body == IF neg THEN Tail(t) ELSE t
        dots == { i \in 1..Len(body) : body[i] = "." }
    IN IF \/ isna(v)
          \/ ~(\E i \in 1..Len(body) : IsDigit(body[i]))
          \/ ~(\A i \in 1..Len(body) : IsDigit(body[i]) \/ body[i] = ".")
          \/ Cardinality(dots) > 1
          \/ (\E i \in dots : Len(body) - i > 2)
        THEN 0
        ELSE LET dot == IF dots = {} THEN Len(body) + 1 ELSE CHOOSE i \in dots : TRUE
                 whole == DigitsValue(SubSeq(body, 1, dot - 1))
                 frac == SubSeq(body, dot + 1, Len(body))
                 cents == IF Len(frac) = 2 THEN DigitsValue(frac)
                          ELSE IF Len(frac) = 1 THEN 10 * DigitsValue(frac) ELSE 0
             IN IF neg THEN 0 - (100 * whole + cents) ELSE 100 * whole + cents

\* line 155
display_columns == {"Location", "Invoice #", "WO #", "Total", "Invoice Link"}

PrepareError ==
    <<"F","a","i","l","e","d"," ","t","o"," ","p","r","e","p","a","r","e"," ",
      "d","i","s","p","l","a","y"," ","d","a","t","a">>

\* lines 143-163
prepare_display_data(d) ==
    IF d.rows = <<>> \/ d.columns = {}
        THEN Returned(Frame(display_columns, <<>>))
    ELSE IF ~(display_columns \subseteq d.columns)
        THEN Raised(PrepareError)
    ELSE Returned(Frame(display_columns,
            [i \in 1..Len(d.rows) |->
                MkRow(d.rows[i].index,
                    [c \in display_columns |->
                        CASE c = "Location" -> process_location(d.rows[i].cells[c])
                          [] c = "Total" -> to_numeric(d.rows[i].cells[c])
                          [] OTHER -> d.rows[i].cells[c]])]))

\* lines 230-238, in cents
calculate_total_sum(d) ==
    LET S[k \in 0..Len(d.rows)] ==
            IF k = 0 THEN 0 ELSE S[k - 1] + d.rows[k].cells["Total"]
    IN S[Len(d.rows)]

-----------------------------------------------------------------------------
(* DataProcessor.format_currency                                           *)

\* an amount by its Python type: None, a number of whole cents, a float that
\* is nan or infinite, or text
\*   [type |-> "NoneType"], [type |-> "number", cents |-> c],
\*   [type |-> "float", special |-> name], [type |-> "str", text |-> t]

\* float(amount), line 310: None raises TypeError and text that is no float
\* literal raises ValueError; 'nan', 'inf' and 'infinity' in any letter case
\* are float literals.  Decimal texts have at most two decimals here.
float_of(amount) ==
    CASE amount.type = "NoneType" -> [kind |-> "raised"]
      [] amount.type = "number" -> [kind |-> "finite", cents |-> amount.cents]
      [] amount.type = "float" -> [kind |-> "special", name |-> amount.special]
      [] OTHER ->
            LET t == str_strip(amount.text)
                signed == t # <<>> /\ Head(t) \in {"-", "+"}
                neg == t # <<>> /\ Head(t) = "-"
                body == str_lower(IF signed THEN Tail(t) ELSE t)
                dots == { i \in 1..Len(body) : body[i] = "." }
            IN IF body = <<"n","a","n">>
                 THEN [kind |-> "special", name |-> <<"n","a","n">>]
               ELSE IF body \in { <<"i","n","f">>, <<"i","n","f","i","n","i","t","y">> }
                 THEN [kind |-> "special",
                       name |-> (IF neg THEN <<"-">> ELSE <<>>) \o <<"i","n","f">>]
               ELSE IF /\ \E i \in 1..Len(body) : IsDigit(body[i])
                       /\ \A i \in 1..Len(body) : IsDigit(body[i]) \/ body[i] = "."
                       /\ Cardinality(dots) <= 1
                       /\ \A i \in dots : Len(body) - i <= 2
                 THEN [kind |-> "finite", cents |-> to_numeric(amount.text)]
               ELSE [kind |-> "raised"]

\* lines 307-312
format_currency(amount) ==
    LET x == float_of(amount)
    IN CASE x.kind = "raised" -> <<"$","0",".","0","0">>
         [] x.kind = "finite" -> FormatMoney(x.cents)
         [] OTHER -> <<"$">> \o x.name

-----------------------------------------------------------------------------
(* DataProcessor.get_image_urls and GoogleClient.get_image_from_url        *)

\* lines 292-300: the first of the accepted column names the frame has
image_column(d) ==
    IF "Invoice Link" \in d.columns THEN "Invoice Link"
    ELSE IF "invoice link" \in d.columns THEN "invoice link"
    ELSE IF "Picture of Completed Job" \in d.columns THEN "Picture of Completed Job"
    ELSE "none"

RECURSIVE DropBlank(_)
DropBlank(urls) ==
    IF urls = <<>> THEN <<>>
    ELSE IF ~isna(Head(urls)) /\ Head(urls) # <<>>
        THEN <<Head(urls)>> \o DropBlank(Tail(urls))
        ELSE DropBlank(Tail(urls))

\* lines 286-305
get_image_urls(d) ==
    IF d.rows = <<>> \/ d.columns = {} \/ image_column(d) = "none" THEN <<>>
    ELSE DropBlank(Column(d, image_column(d)))

\* [a-zA-Z0-9-_]
IsIdChar(c) == IsLetter(c) \/ IsDigit(c) \/ c \in {"-", "_"}

\* the longest run of identifier characters that starts at position i
RECURSIVE IdRun(_, _)
IdRun(text, i) ==
    IF i <= Len(text) /\ IsIdChar(text[i])
        THEN <<text[i]>> \o IdRun(text, i + 1)
        ELSE <<>>

\* re.search(r'[?&]id=([a-zA-Z0-9-_]+)', url): group 1, or <<>> for no match
query_id(url) ==
    LET hits == { i \in 1..Len(url) :
                    /\ url[i] \in {"?", "&"}
                    /\ i + 3 <= Len(url)
                    /\ SubSeq(url, i + 1, i + 3) = <<"i","d","=">>
                    /\ IdRun(url, i + 4) # <<>> }
    IN IF hits = {} THEN <<>>
       ELSE IdRun(url, (CHOOSE i \in hits : \A j \in hits : i <= j) + 4)

\* re.search(r'/d/([a-zA-Z0-9-_]+)', url): group 1, or <<>> for no match
path_id(url) ==
    LET hits == { i \in 1..Len(url) :
                    /\ i + 2 <= Len(url)
                    /\ SubSeq(url, i, i + 2) = <<"/","d","/">>
                    /\ IdRun(url, i + 3) # <<>> }
    IN IF hits = {} THEN <<>>
       ELSE IdRun(url, (CHOOSE i \in hits : \A j \in hits : i <= j) + 3)

\* mutant: the path shape is tried before the query parameter
extract_file_id_PathFirst(url) ==
    LET stripped == str_strip(url)
        clean == IF stripped # <<>> /\ Head(stripped) = "@" THEN Tail(stripped) ELSE stripped
    IN IF path_id(clean) # <<>> THEN path_id(clean) ELSE query_id(clean)

\* lines 172-187: the file id of a reference, or <<>> when none is found
extract_file_id(url) ==
    LET stripped == str_strip(url)
        clean == IF stripped # <<>> /\ Head(stripped) = "@" THEN Tail(stripped) ELSE stripped
    IN IF query_id(clean) # <<>> THEN query_id(clean) ELSE path_id(clean)

\* lines 193-213 without their handler: drive maps a file id to what the
\* Drive API serves for it, an image or a failure (HTTP 403, a transport
\* error, bytes that Image.open rejects); an id it does not map is HTTP 404.
\* PIL opens lazily, so a truncated file is returned as an image whose pixels
\* do not decode.
download_image(drive, file_id) ==
    IF file_id \notin DOMAIN drive THEN Raised(<<"4","0","4">>)
    ELSE IF drive[file_id].kind = "Image" THEN [kind |-> "returned", image |-> drive[file_id]]
    ELSE Raised(drive[file_id].error)

\* mutant: the handler of lines 215-224 is missing and the Drive error
\* reaches the caller
get_image_from_url_NoHandler(drive, url) ==
    IF isna(url) \/ url = <<>> THEN NoImage
    ELSE LET file_id == extract_file_id(url)
         IN IF file_id = <<>> THEN NoImage
            ELSE LET r == download_image(drive, file_id)
                 IN IF r.kind = "raised" THEN r ELSE r.image

\* lines 165-228: every failure of the download is caught at line 215 and
\* gives None
get_image_from_url(drive, url) ==
    IF isna(url) \/ url = <<>> THEN NoImage
    ELSE LET file_id == extract_file_id(url)
         IN IF file_id = <<>> THEN NoImage
            ELSE LET r == download_image(drive, file_id)
                 IN IF r.kind = "raised" THEN NoImage ELSE r.image

-----------------------------------------------------------------------------
(* DataProcessor.generate_pdf                                              *)

\* reportlab.lib.units.inch, in points
inch == 72

max_width == 7 * inch
max_height == 9 * inch

RLImage(width, height, size) ==
    [kind |-> "Image", width |-> width, height |-> height, size |-> size]

\* lines 221-223: scale = min(max_width / img_width, max_height / img_height)
page_scale(img_width, img_height) ==
    MinRatio(<<max_width, img_width>>, <<max_height, img_height>>)

\* lines 196-240: what one entry of images adds to the story.  The Spacer is
\* appended before save(), which raises for pixels that do not decode; the
\* drawn width and height are the fractions <<numerator, denominator>>.
image_flowables(image) ==
    IF image = NoImage THEN <<>>
    ELSE LET optimized_image == optimize_image_for_pdf(image)
         IN IF optimized_image = NoImage THEN <<>>
            ELSE IF ~optimized_image.decodes THEN <<Spacer(1, 12)>>
            ELSE LET img_width == optimized_image.width
                     img_height == optimized_image.height
                     scale == page_scale(img_width, img_height)
                 IN << Spacer(1, 12),
                       RLImage(<<img_width * scale[1], scale[2]>>,
                               <<img_height * scale[1], scale[2]>>,
                               <<img_width, img_height>>) >>

RECURSIVE images_flowables(_)
images_flowables(images) ==
    IF images = <<>> THEN <<>>
    ELSE image_flowables(Head(images)) \o images_flowables(Tail(images))

\* mutant: the table is built for an empty frame too
table_flowables_Always(display_df) ==
    <<Table(<<headers>> \o <<total_row(display_df.rows)>>)>>

\* lines 172-190
table_flowables(display_df) ==
    IF display_df.rows # <<>>
        THEN <<Table(get_table_data_for_pdf(display_df))>>
        ELSE <<>>

\* lines 158-240: the story handed to doc.build (the time of day of the
\* "Generated:" line is left out)
build_story(display_df, images, subcontractor_name, date) ==
    << Paragraph(<<"I","n","v","o","i","c","e"," ","S","u","m","m","a","r","y"," ","-"," ">>
                    \o str_title(subcontractor_name), "Title"),
       Spacer(1, 12),
       Paragraph(<<"G","e","n","e","r","a","t","e","d",":"," ">> \o strftime_date(date),
                 "Normal"),
       Spacer(1, 12) >>
    \o table_flowables(display_df)
    \o images_flowables(images)

\* a text split at "/" into path components
RECURSIVE split_path(_, _)
split_path(t, acc) ==
    IF t = <<>> THEN <<acc>>
    ELSE IF Head(t) = "/" THEN <<acc>> \o split_path(Tail(t), <<>>)
    ELSE split_path(Tail(t), Append(acc, Head(t)))

\* lines 152-154: os.path.join(output_dir, filename) as path components
report_path(output_dir, subcontractor_name, date) ==
    output_dir \o split_path(
        subcontractor_name \o <<"_","I","n","v","o","i","c","e","_">>
            \o strftime_date(date) \o <<".","p","d","f">>,
        <<>>)

Parent(path) == SubSeq(path, 1, Len(path) - 1)

Prefixes(path) == { SubSeq(path, 1, k) : k \in 1..Len(path) }

PdfError ==
    <<"F","a","i","l","e","d"," ","t","o"," ","g","e","n","e","r","a","t","e"," ","P","D","F">>

\* the directory in which nothing can be created
ReadOnlyDir == << <<"r","e","a","d","o","n","l","y">> >>

\* os.makedirs(output_dir, exist_ok=True): ok is FALSE when a directory would
\* have to be created under ReadOnlyDir
makedirs(fs, output_dir) ==
    LET missing == Prefixes(output_dir) \ fs.dirs
    IN IF \E d \in missing : Parent(d) = ReadOnlyDir
        THEN [ok |-> FALSE, disk |-> fs]
        ELSE [ok |-> TRUE, disk |-> [fs EXCEPT !.dirs = @ \cup missing]]

\* doc.build(story), line 244: the file at path is created or replaced
write_file(fs, path, story) ==
    [fs EXCEPT !.files =
        { f \in @ : f.path # path } \cup { [path |-> path, story |-> story] }]

\* lines 139-251: the disk afterwards and the path returned or the exception
generate_pdf(fs, display_df, images, subcontractor_name, output_dir, date) ==
    LET made == makedirs(fs, output_dir)
        filepath == report_path(output_dir, subcontractor_name, date)
        story == build_story(display_df, images, subcontractor_name, date)
    IN IF ~made.ok
        THEN [disk |-> fs, out |-> Raised(PdfError)]
        ELSE IF Parent(filepath) \notin made.disk.dirs
            THEN [disk |-> made.disk, out |-> Raised(PdfError)]
            ELSE [disk |-> write_file(made.disk, filepath, story),
                  out |-> [kind |-> "returned", filepath |-> filepath]]

-----------------------------------------------------------------------------
(* Starting values of the parts a specification does not use               *)

StartDate == [year |-> 2024, month |-> 3, day |-> 5]

EmptyDisk == [dirs |-> {ReadOnlyDir}, files |-> {}]

NoArgs == [kind |-> "none"]

EmptyFrame == Frame({}, <<>>)

ReportIdle ==
    /\ disk = EmptyDisk
    /\ today = StartDate
    /\ args = NoArgs
    /\ calls = 0

FilterIdle ==
    /\ df = EmptyFrame
    /\ df_in = EmptyFrame
    /\ sub_name = <<>>

\* Python's None
None == [kind |-> "None"]

\* None in a field that otherwise holds text: no text, as NaN is
NoSelection == <<"<None>">>

\* gui_app.py line 163 and update_table: the table widget
TreeOf(rows, total) == [rows |-> rows, total |-> total]

\* lines 30-36 and the labels of setup_gui (lines 106, 163, 193)
GuiFields ==
    /\ raw_data = None
    /\ filtered_data = None
    /\ display_data = None
    /\ lists = << <<>> >>
    /\ current_images = 1
    /\ current_image_index = 0
    /\ selected_subcontractor = NoSelection
    /\ after_queue = <<>>
    /\ status = "Ready"
    /\ tree = TreeOf(<<>>, 0)
    /\ image_view = [counter |-> <<0, 0>>, label |-> "No image available"]
    /\ dialog = "none"

GuiIdle ==
    /\ GuiFields
    /\ workers = <<>>

-----------------------------------------------------------------------------
(* Inputs of the filter specification                                      *)

ApprovalInputs ==
    { <<" ","A","p","p","r","o","v","e","d"," ">>,
      <<"a","p","r","o","b","a","d","o">>,
      <<"P","e","n","d","i","n","g">>,
      NaN }

StatusInputs ==
    { <<>>,
      <<" "," ">>,
      <<"n","a","n">>,
      <<"N","o","n","e">>,
      <<" ","P","a","i","d">>,
      NaN }

TimestampInputs ==
    { <<"2","0","2","4","-","0","3","-","0","5">>,
      <<"2","0","2","4","-","0","1","-","0","9">>,
      <<"s","o","o","n">> }

NameInputs == { <<"F","r","a","n","k"," ">>, <<" "," ">> }

TotalInputs == { <<"1","5","0",".","5">>, <<"n","/","a">> }

FilterColumns == {"Name", "Approval Status", "Invoice Status", "Total", TimestampCol}

ColumnSets ==
    { FilterColumns,
      FilterColumns \ {TimestampCol},
      FilterColumns \ {"Approval Status"},
      FilterColumns \ {"Invoice Status"} }

CellsOf(a, st, t, n, tot) ==
    [c \in FilterColumns |->
        CASE c = "Name" -> n
          [] c = "Approval Status" -> a
          [] c = "Invoice Status" -> st
          [] c = "Total" -> tot
          [] OTHER -> t]

\* every pair of statuses under one timestamp, name and total; every
\* timestamp, name and total under one approved, unpaid pair of statuses
\* (the masks read only the statuses and the sort reads only the timestamp)
FilterCells ==
    { CellsOf(a, st, <<"2","0","2","4","-","0","3","-","0","5">>,
              <<"F","r","a","n","k"," ">>, <<"1","5","0",".","5">>) :
        a \in ApprovalInputs, st \in StatusInputs }
    \cup
    { CellsOf(<<"a","p","r","o","b","a","d","o">>, <<>>, t,
              <<"F","r","a","n","k"," ">>, <<"1","5","0",".","5">>) :
        t \in TimestampInputs }
    \cup
    { CellsOf(<<"a","p","r","o","b","a","d","o">>, <<>>,
              <<"2","0","2","4","-","0","3","-","0","5">>, n, tot) :
        n \in NameInputs, tot \in TotalInputs }

\* the frame of the given rows' cells over the given columns, index labels 1..n
FrameOf(columns, cs) ==
    Frame(columns, [i \in 1..Len(cs) |-> MkRow(i, [c \in columns |-> cs[i][c]])])

-----------------------------------------------------------------------------
(* The caller of filter_invoice_data                                       *)

InitFilter ==
    /\ GuiIdle
    /\ \E n \in 0..MaxRows, cols \in ColumnSets :
          \E cs \in [1..n -> FilterCells] : df = FrameOf(cols, cs)
    /\ df_in = df
    /\ out = NoCall
    /\ sub_name = <<>>
    /\ pc = "start"
    /\ ReportIdle

CallFilterInvoiceData ==
    /\ pc = "start"
    /\ \E r \in filter_invoice_data(df) :
          /\ df' = r.df
          /\ out' = r.out
    /\ df_in' = df
    /\ pc' = "filtered"
    /\ UNCHANGED <<sub_name, reportVars, guiVars>>

NextFilter == CallFilterInvoiceData

SpecFilter == InitFilter /\ [][NextFilter]_vars

-----------------------------------------------------------------------------
(* The caller of filter_by_subcontractor                                   *)

SubNameInputs ==
    { SUBCONTRACTORS[i] : i \in 1..Len(SUBCONTRACTORS) } \cup
    { <<"F","R","A","N","K">>,
      <<"f",".","a","n","k">>,
      <<"(","f","r","a","n","k">> }

RowNameInputs ==
    { <<"f","r","a","n","k">>,
      <<"J","o","s","u","e"," ","C","r","u","z"," ","/"," ","F","r","a","n","k"," ","L">>,
      <<"f","x","a","n","k">>,
      <<"2","4","/","7"," ","T","e","c","h">>,
      NaN }

InitSub ==
    /\ GuiIdle
    /\ \E n \in 0..MaxRows :
          \E ns \in [1..n -> RowNameInputs] :
              df = Frame({"Name"}, [i \in 1..n |-> MkRow(i, [c \in {"Name"} |-> ns[i]])])
    /\ df_in = df
    /\ out = NoCall
    /\ sub_name = <<>>
    /\ pc = "start"
    /\ ReportIdle

CallFilterBySubcontractor ==
    /\ pc = "start"
    /\ \E name \in SubNameInputs :
          LET r == filter_by_subcontractor(df, name)
          IN /\ df' = r.df
             /\ out' = r.out
             /\ sub_name' = name
    /\ df_in' = df
    /\ pc' = "selected"
    /\ UNCHANGED <<reportVars, guiVars>>

NextSub == CallFilterBySubcontractor

SpecSub == InitSub /\ [][NextSub]_vars

-----------------------------------------------------------------------------
(* Inputs of the report specifications                                     *)

MaxDisplayRows == 2
MaxCalls == 2
MaxDays == 1

DisplayColumns == {"Location", "Invoice #", "WO #", "Total", "Invoice Link"}

LinkInputs ==
    { <<"h","t","t","p","s",":","/","/","d","/","o","p","e","n","?","i","d","=","A","1">>,
      <<>>,
      NaN }

\* amounts in cents
AmountInputs == { 0, 999, 15050, 0 - 250 }

DisplayCells(amount, link) ==
    [c \in DisplayColumns |->
        CASE c = "Location" -> <<"1","2"," ","M","a","i","n"," ","S","t">>
          [] c = "Invoice #" -> <<"7","1">>
          [] c = "WO #" -> <<"W","8">>
          [] c = "Total" -> amount
          [] OTHER -> link]

DisplayCellInputs == { DisplayCells(a, l) : a \in AmountInputs, l \in LinkInputs }

DisplayFrameOf(cs) ==
    Frame(DisplayColumns, [i \in 1..Len(cs) |-> MkRow(i, cs[i])])

\* the frames generate_pdf is called with
ReportFrames ==
    { DisplayFrameOf(<<>>),
      DisplayFrameOf(<<DisplayCells(15050, <<"h","t","t","p","s",":","/","/","d","/","o","p","e","n","?","i","d","=","A","1">>)>>),
      DisplayFrameOf(<<DisplayCells(15050, <<>>), DisplayCells(999, NaN)>>) }

\* the image lists generate_pdf is called with: none, one small image, an
\* unresolved entry before a large rotated photo, an undecodable image
\* before a small one
ReportImageLists ==
    { <<>>,
      <<PilImage(100, 200, 1, "RGB", TRUE)>>,
      <<NoImage, PilImage(3000, 2000, 6, "RGBA", TRUE)>>,
      <<PilImage(640, 480, 1, "RGB", FALSE), PilImage(100, 200, 1, "RGB", TRUE)>> }

ReportNames == { SUBCONTRACTORS[3], SUBCONTRACTORS[10] }

\* the default output directory, and one that cannot be created
OutputDirs ==
    { << <<"p","d","f","s">> >>,
      ReadOnlyDir \o << <<"p","d","f","s">> >> }

\* the file system before the first call: nothing but the read-only
\* directory, or an output directory pdfs that exists and has a
\* subdirectory named 24
ReportDisks ==
    { EmptyDisk,
      [dirs |-> { ReadOnlyDir, << <<"p","d","f","s">> >>,
                  << <<"p","d","f","s">>, <<"2","4">> >> },
       files |-> {}] }

-----------------------------------------------------------------------------
(* The caller of get_table_data_for_pdf                                    *)

InitTable ==
    /\ GuiIdle
    /\ \E n \in 0..MaxDisplayRows :
          \E cs \in [1..n -> DisplayCellInputs] :
              args = [kind |-> "table", display_df |-> DisplayFrameOf(cs)]
    /\ out = NoCall
    /\ pc = "start"
    /\ disk = EmptyDisk
    /\ today = StartDate
    /\ calls = 0
    /\ FilterIdle

CallGetTableData ==
    /\ pc = "start"
    /\ out' = [kind |-> "returned", table_data |-> get_table_data_for_pdf(args.display_df)]
    /\ pc' = "tabled"
    /\ UNCHANGED <<filterVars, reportVars, guiVars>>

NextTable == CallGetTableData

SpecTable == InitTable /\ [][NextTable]_vars

-----------------------------------------------------------------------------
(* The caller of optimize_image_for_pdf                                    *)

\* pixel sizes from one pixel to several thousand, every EXIF orientation
\* the code tells apart, a mode that is RGB and one that is not
ImageWidths == {1, 100, 640, 900, 3000}
ImageHeights == {1, 200, 480, 900, 2000, 5000}
ImageOrientations == {1, 3, 6, 8}
ImageModes == {"RGB", "RGBA"}

InitImage ==
    /\ GuiIdle
    /\ \E w \in ImageWidths, h \in ImageHeights, o \in ImageOrientations,
          m \in ImageModes, d \in BOOLEAN :
          args = [kind |-> "image", image |-> PilImage(w, h, o, m, d)]
    /\ out = NoCall
    /\ pc = "start"
    /\ disk = EmptyDisk
    /\ today = StartDate
    /\ calls = 0
    /\ FilterIdle

CallOptimizeImage ==
    /\ pc = "start"
    /\ out' = [kind |-> "returned", image |-> optimize_image_for_pdf(args.image)]
    /\ pc' = "optimized"
    /\ UNCHANGED <<filterVars, reportVars, guiVars>>

NextImage == CallOptimizeImage

SpecImage == InitImage /\ [][NextImage]_vars

-----------------------------------------------------------------------------
(* The image loop of load_images (gui_app.py lines 311-314) on its own     *)

\* most references in one batch
MaxUrls == 2

\* references of both shapes, with and without the leading @, with both
\* shapes at once, of neither shape, empty and missing
RefInputs ==
    { NaN, <<>>,
      <<"d","r","i","v","e","/","o","p","e","n","?","i","d","=","A","1">>,
      <<" ","@","d","r","i","v","e","/","f","i","l","e","/","d","/","B","2","/","v","i","e","w">>,
      <<"d","r","i","v","e","/","f","i","l","e","/","d","/","C","-","3","_","x">>,
      <<"@","d","r","i","v","e","/","d","/","B","2","/","v","?","a","=","1","&","i","d","=","A","1">>,
      <<"d","r","i","v","e","/","o","p","e","n","#","i","d","=","A","1">>,
      <<"p","h","o","t","o",".","j","p","g">> }

HttpError(code) == [kind |-> "HttpError", error |-> code]

\* what the Drive API serves: every file well; A1 forbidden and B2 no image;
\* A1 a truncated image and B2 a broken connection (C-3_x is never served)
DriveInputs ==
    { <<"A","1">> :> PilImage(100, 200, 1, "RGB", TRUE) @@
      <<"B","2">> :> PilImage(640, 480, 1, "RGB", TRUE),
      <<"A","1">> :> HttpError(<<"4","0","3">>) @@
      <<"B","2">> :> [kind |-> "Bytes", error |-> <<"c","a","n","n","o","t"," ","i","d","e","n","t","i","f","y"," ","i","m","a","g","e"," ","f","i","l","e">>],
      <<"A","1">> :> PilImage(100, 200, 1, "RGB", FALSE) @@
      <<"B","2">> :> [kind |-> "Transport", error |-> <<"t","i","m","e","d"," ","o","u","t">>] }

InitFetch ==
    /\ GuiIdle
    /\ \E n \in 0..MaxUrls, drive \in DriveInputs :
          \E image_urls \in [1..n -> RefInputs] :
              args = [kind |-> "fetch", image_urls |-> image_urls, drive |-> drive]
    /\ out = [kind |-> "running", current_images |-> <<>>, requested |-> <<>>]
    /\ pc = "start"
    /\ disk = EmptyDisk
    /\ today = StartDate
    /\ calls = 0
    /\ FilterIdle

\* the file ids get_image_from_url asks the Drive API for (line 196)
requested_ids(url) ==
    IF isna(url) \/ url = <<>> \/ extract_file_id(url) = <<>>
        THEN <<>>
        ELSE <<extract_file_id(url)>>

\* one turn of the loop, lines 312-314; an exception that leaves
\* get_image_from_url ends the loop (line 323)
FetchOne ==
    /\ pc = "start"
    /\ Len(out.current_images) < Len(args.image_urls)
    /\ LET url == args.image_urls[Len(out.current_images) + 1]
           image == get_image_from_url(args.drive, url)
       IN IF image.kind = "raised"
            THEN /\ out' = [out EXCEPT !.kind = "raised",
                                       !.requested = @ \o requested_ids(url)]
                 /\ pc' = "aborted"
            ELSE /\ out' = [out EXCEPT !.current_images = Append(@, image),
                                       !.requested = @ \o requested_ids(url)]
                 /\ pc' = pc
    /\ UNCHANGED <<filterVars, reportVars, guiVars>>

\* the loop has run through image_urls
FetchDone ==
    /\ pc = "start"
    /\ Len(out.current_images) = Len(args.image_urls)
    /\ out' = [out EXCEPT !.kind = "returned"]
    /\ pc' = "fetched"
    /\ UNCHANGED <<filterVars, reportVars, guiVars>>

NextFetch == FetchOne \/ FetchDone

SpecFetch == InitFetch /\ [][NextFetch]_vars

-----------------------------------------------------------------------------
(* The callers of prepare_display_data and process_location                *)

\* the accepted names of the image-reference column
LinkColumnNames == {"Invoice Link", "invoice link", "Picture of Completed Job"}

\* addresses: with the Washington suffix in the spelling of the sheet, in
\* lower case without white space and with text after the zip, with a
\* four-digit zip, with the suffix twice, with a second line after the zip,
\* with the suffix broken over lines, without suffix, blank, empty, missing
LocationInputs ==
    { <<"5"," ","K"," ","S","t",","," ","W","a","s","h","i","n","g","t","o","n",","," ","D","i","s","t","r","i","c","t"," ","o","f"," ","C","o","l","u","m","b","i","a"," ","2","0","0","0","1">>,
      <<" ","5"," ","K"," ","S","t",",","w","a","s","h","i","n","g","t","o","n",",","d","i","s","t","r","i","c","t"," ","o","f"," ","c","o","l","u","m","b","i","a","2","0","0","0","1"," ","U","S","A">>,
      <<"9"," ","J"," ","S","t",","," ","W","a","s","h","i","n","g","t","o","n",","," ","D","i","s","t","r","i","c","t"," ","o","f"," ","C","o","l","u","m","b","i","a"," ","2","0","0","0">>,
      <<"1"," ","A"," ","S","t",","," ","W","a","s","h","i","n","g","t","o","n",","," ","D","i","s","t","r","i","c","t"," ","o","f"," ","C","o","l","u","m","b","i","a"," ","2","0","0","0","1",","," ","W","a","s","h","i","n","g","t","o","n",","," ","D","i","s","t","r","i","c","t"," ","o","f"," ","C","o","l","u","m","b","i","a"," ","2","0","0","0","2">>,
      <<"5"," ","K"," ","S","t",","," ","W","a","s","h","i","n","g","t","o","n",","," ","D","i","s","t","r","i","c","t"," ","o","f"," ","C","o","l","u","m","b","i","a"," ","2","0","0","0","1">> \o <<"\n">> \o <<"S","u","i","t","e"," ","4">>,
      <<"5"," ","K"," ","S","t",",">> \o <<"\n">> \o <<"W","a","s","h","i","n","g","t","o","n",","," ","D","i","s","t","r","i","c","t"," ","o","f"," ","C","o","l","u","m","b","i","a">> \o <<"\n">> \o <<"2","0","0","0","1">>,
      <<" ","1","2"," ","E","l","m"," ","S","t"," ">>,
      <<" "," ">>,
      <<>>,
      NaN }

\* the Total cells of the sheet: decimal texts, texts that are no number,
\* empty and missing
TotalTextInputs ==
    { <<"1","5","0",".","5","0">>, <<" ","7"," ">>, <<"-","2","0">>, <<"n","/","a">>, <<"$","9">>, <<>>, NaN }

SourceCells(linkcol, location, total, link) ==
    [c \in {"Name", "Location", "Invoice #", "WO #", "Total", linkcol} |->
        CASE c = "Name" -> <<"f","r","a","n","k">>
          [] c = "Location" -> location
          [] c = "Invoice #" -> <<"1","0","1">>
          [] c = "WO #" -> <<"7">>
          [] c = "Total" -> total
          [] OTHER -> link]

\* rows of a frame whose image-reference column is named linkcol
SourceCellInputs(linkcol) ==
    { SourceCells(linkcol, <<"5"," ","K"," ","S","t",","," ","W","a","s","h","i","n","g","t","o","n",","," ","D","i","s","t","r","i","c","t"," ","o","f"," ","C","o","l","u","m","b","i","a"," ","2","0","0","0","1">>, total, <<"d","r","i","v","e","/","o","p","e","n","?","i","d","=","A","1">>) :
        total \in TotalTextInputs }
    \cup { SourceCells(linkcol, <<" ","1","2"," ","E","l","m"," ","S","t"," ">>, <<"2","0">>, link) :
        link \in {<<>>, NaN} }

\* text handed to format_currency: numbers, the float literals that are no
\* number, the empty string and other text
AmountTextInputs ==
    { <<"1","2","3","4",".","5">>, <<" ","7"," ">>, <<"-","0",".","2","5">>, <<"n","a","n">>, <<"N","a","N">>, <<"i","n","f">>, <<"-","I","n","f","i","n","i","t","y">>,
      <<>>, <<"n","/","a">>, <<"$","1","2">>, <<"1",".","2",".","3">> }

InitDisplay ==
    /\ GuiIdle
    /\ \/ \E n \in 0..MaxDisplayRows, linkcol \in LinkColumnNames :
             \E cs \in [1..n -> SourceCellInputs(linkcol)] :
                 args = [kind |-> "display",
                         df |-> Frame(DOMAIN SourceCells(linkcol, <<>>, <<>>, <<>>),
                                      [i \in 1..n |-> MkRow(i + 3, cs[i])])]
       \/ \E location \in LocationInputs :
             args = [kind |-> "location", location |-> location]
       \/ \E text \in AmountTextInputs :
             args = [kind |-> "currency", amount |-> [type |-> "str", text |-> text]]
       \/ \E cents \in AmountInputs :
             args = [kind |-> "currency", amount |-> [type |-> "number", cents |-> cents]]
       \/ args = [kind |-> "currency", amount |-> [type |-> "NoneType"]]
       \/ args = [kind |-> "currency",
                  amount |-> [type |-> "float", special |-> <<"n","a","n">>]]
    /\ out = NoCall
    /\ pc = "start"
    /\ disk = EmptyDisk
    /\ today = StartDate
    /\ calls = 0
    /\ FilterIdle

CallPrepareDisplayData ==
    /\ pc = "start"
    /\ args.kind = "display"
    /\ out' = prepare_display_data(args.df)
    /\ pc' = "displayed"
    /\ UNCHANGED <<filterVars, reportVars, guiVars>>

CallProcessLocation ==
    /\ pc = "start"
    /\ args.kind = "location"
    /\ out' = [kind |-> "returned", text |-> process_location(args.location)]
    /\ pc' = "located"
    /\ UNCHANGED <<filterVars, reportVars, guiVars>>

CallFormatCurrency ==
    /\ pc = "start"
    /\ args.kind = "currency"
    /\ out' = [kind |-> "returned", text |-> format_currency(args.amount)]
    /\ pc' = "formatted"
    /\ UNCHANGED <<filterVars, reportVars, guiVars>>

NextDisplay == CallPrepareDisplayData \/ CallProcessLocation \/ CallFormatCurrency

SpecDisplay == InitDisplay /\ [][NextDisplay]_vars

-----------------------------------------------------------------------------
(* The caller of generate_pdf, and the calendar                            *)

InitReport ==
    /\ GuiIdle
    /\ disk \in ReportDisks
    /\ today = StartDate
    /\ args = NoArgs
    /\ calls = 0
    /\ FilterIdle
    /\ out = NoCall
    /\ pc = "start"

CallGeneratePdf ==
    /\ calls < MaxCalls
    /\ \E display_df \in ReportFrames, images \in ReportImageLists,
          subcontractor_name \in ReportNames, output_dir \in OutputDirs :
          LET r == generate_pdf(disk, display_df, images, subcontractor_name,
                                output_dir, today)
          IN /\ disk' = r.disk
             /\ out' = r.out
             /\ args' = [kind |-> "report", display_df |-> display_df,
                         images |-> images,
                         subcontractor_name |-> subcontractor_name,
                         output_dir |-> output_dir, date |-> today]
    /\ calls' = calls + 1
    /\ pc' = "generated"
    /\ UNCHANGED <<filterVars, today, guiVars>>

NextDay ==
    /\ today.day < StartDate.day + MaxDays
    /\ today' = [today EXCEPT !.day = @ + 1]
    /\ UNCHANGED <<filterVars, out, pc, disk, args, calls, guiVars>>

NextReport == CallGeneratePdf \/ NextDay

SpecReport == InitReport /\ [][NextReport]_vars

-----------------------------------------------------------------------------
(* InvoiceApp (gui_app.py): the interactive thread and its workers        *)

\* most subcontractor selections, and most clicks on Generate PDF
MaxSelections == 1
MaxReports == 1

\* what GoogleClient.load_sheet_data returns: two approved, unpaid rows of
\* Frank (the later one first), one of Marco without a link, one paid row
SheetData ==
    Frame(
        {"Name", "Approval Status", "Invoice Status", "Invoice Timestamp", "Total", "Location", "Invoice #", "WO #", "Invoice Link"},
        <<
        MkRow(0,
            "Name" :> <<"F","r","a","n","k">> @@
            "Approval Status" :> <<"A","p","p","r","o","v","e","d">> @@
            "Invoice Status" :> <<>> @@
            "Invoice Timestamp" :> <<"2","0","2","4","-","0","3","-","0","5">> @@
            "Total" :> <<"1","5","0",".","5","0">> @@
            "Location" :> <<"1","2"," ","E","l","m"," ","S","t">> @@
            "Invoice #" :> <<"1","0","1">> @@
            "WO #" :> <<"7">> @@
            "Invoice Link" :> <<"d","r","i","v","e","/","o","p","e","n","?","i","d","=","A","1">>),
        MkRow(1,
            "Name" :> <<"f","r","a","n","k">> @@
            "Approval Status" :> <<" ","a","p","r","o","b","a","d","o">> @@
            "Invoice Status" :> <<>> @@
            "Invoice Timestamp" :> <<"2","0","2","4","-","0","1","-","0","9">> @@
            "Total" :> <<"2","0">> @@
            "Location" :> <<"5"," ","K"," ","S","t",","," ","W","a","s","h","i","n","g","t","o","n",","," ","D","i","s","t","r","i","c","t"," ","o","f"," ","C","o","l","u","m","b","i","a"," ","2","0","0","0","1">> @@
            "Invoice #" :> <<"1","0","2">> @@
            "WO #" :> <<"8">> @@
            "Invoice Link" :> <<"d","r","i","v","e","/","f","i","l","e","/","d","/","B","2","/","v","i","e","w">>),
        MkRow(2,
            "Name" :> <<"M","a","r","c","o">> @@
            "Approval Status" :> <<"a","p","p","r","o","v","e","d">> @@
            "Invoice Status" :> <<"n","a","n">> @@
            "Invoice Timestamp" :> <<"2","0","2","4","-","0","2","-","0","1">> @@
            "Total" :> <<"9",".","9","9">> @@
            "Location" :> <<"3"," ","O","a","k"," ","A","v","e">> @@
            "Invoice #" :> <<"1","0","3">> @@
            "WO #" :> <<"9">> @@
            "Invoice Link" :> <<>>),
        MkRow(3,
            "Name" :> <<"M","a","r","c","o">> @@
            "Approval Status" :> <<"A","p","p","r","o","v","e","d">> @@
            "Invoice Status" :> <<"P","a","i","d">> @@
            "Invoice Timestamp" :> <<"2","0","2","4","-","0","2","-","0","2">> @@
            "Total" :> <<"7","5">> @@
            "Location" :> <<"4"," ","P","i","n","e"," ","R","d">> @@
            "Invoice #" :> <<"1","0","4">> @@
            "WO #" :> <<"1","0">> @@
            "Invoice Link" :> <<"d","r","i","v","e","/","o","p","e","n","?","i","d","=","C","3">>)
        >>)

\* the files Drive serves, by file id; B2 is referenced by the sheet and is
\* not served
DriveFiles == <<"A","1">> :> PilImage(100, 200, 1, "RGB", TRUE)

\* the names offered by the read-only combobox that the runs select
GuiNames == { SUBCONTRACTORS[3], SUBCONTRACTORS[5] }

\* data_processor.py lines 143-146: the pdfs directory of the project
DefaultOutputDir == << <<"p","d","f","s">> >>

\* a thread and the locals of its target function
Worker(kind, contractor_data) ==
    [kind |-> kind, pc |-> "start", contractor_data |-> contractor_data,
     image_urls |-> <<>>, i |-> 0, images |-> 0, story |-> <<>>,
     filepath |-> <<>>, current_selection |-> NoSelection]

Running(t) == workers[t].pc # "done"

\* a thread whose target has returned: its locals are gone
Finished(w) == [Worker(w.kind, None) EXCEPT !.pc = "done"]

\* the list objects after garbage collection: a list that neither
\* current_images nor a running report names is dropped
Collect(ls, current, ws) ==
    [k \in DOMAIN ls |->
        IF k = current \/ \E t \in DOMAIN ws : ws[t].images = k
            THEN ls[k] ELSE <<>>]

At(t, kind, label) ==
    /\ t \in DOMAIN workers
    /\ workers[t].kind = kind
    /\ workers[t].pc = label

Started(kind) == Cardinality({ t \in DOMAIN workers : workers[t].kind = kind })

falsy(subcontractor) == subcontractor = NoSelection \/ subcontractor = <<>>

\* line 42 of __init__: the state after construction has the load worker started
Init ==
    /\ GuiFields
    /\ workers = << Worker("load", None) >>
    /\ disk = EmptyDisk
    /\ today = StartDate
    /\ args = NoArgs
    /\ calls = 0
    /\ FilterIdle
    /\ out = NoCall
    /\ pc = "start"

idleVars == <<filterVars, out, pc, today, args, calls>>

\* start_loading, lines 219-222, the first statement of every worker
StartLoading(t) ==
    /\ t \in DOMAIN workers
    /\ workers[t].pc = "start"
    /\ status' = "Loading..."
    /\ workers' = [workers EXCEPT ![t].pc =
            CASE workers[t].kind \in {"load", "refresh"} -> "load_sheet"
              [] workers[t].kind = "images" -> "reset"
              [] OTHER -> "call"]
    /\ UNCHANGED <<raw_data, filtered_data, display_data, current_images, lists,
                   current_image_index, selected_subcontractor, after_queue,
                   tree, image_view, dialog, disk, idleVars>>

\* load_worker and refresh_worker run the same two statements
Loads(t, label) ==
    /\ t \in DOMAIN workers
    /\ workers[t].kind \in {"load", "refresh"}
    /\ workers[t].pc = label

\* lines 236 and 436: load_sheet_data returns the sheet, or raises when the
\* sheet cannot be read
LoadSheet(t) ==
    /\ Loads(t, "load_sheet")
    /\ \/ /\ raw_data' = SheetData
          /\ workers' = [workers EXCEPT ![t].pc = "filter"]
       \/ /\ raw_data' = raw_data
          /\ workers' = [workers EXCEPT ![t].pc = "except"]
    /\ UNCHANGED <<filtered_data, display_data, current_images, lists,
                   current_image_index, selected_subcontractor, after_queue,
                   status, tree, image_view, dialog, disk, idleVars>>

\* lines 239 and 437: filter_invoice_data works on the frame raw_data names
FilterSheet(t) ==
    /\ Loads(t, "filter")
    /\ \E r \in filter_invoice_data(raw_data) :
          /\ raw_data' = r.df
          /\ IF r.out.kind = "returned"
                THEN /\ filtered_data' = r.out.df
                     /\ workers' = [workers EXCEPT ![t].pc =
                            IF workers[t].kind = "load" THEN "stop" ELSE "restore"]
                ELSE /\ filtered_data' = filtered_data
                     /\ workers' = [workers EXCEPT ![t].pc = "except"]
    /\ UNCHANGED <<display_data, current_images, lists,
                   current_image_index, selected_subcontractor, after_queue,
                   status, tree, image_view, dialog, disk, idleVars>>

\* stop_loading on the normal path (lines 241, 321, 410)
StopLoading(t) ==
    /\ t \in DOMAIN workers
    /\ workers[t].pc = "stop"
    /\ status' = "Ready"
    /\ workers' = [workers EXCEPT ![t] =
            IF @.kind = "pdf" THEN [@ EXCEPT !.pc = "notify"] ELSE Finished(@)]
    /\ UNCHANGED <<raw_data, filtered_data, display_data, current_images, lists,
                   current_image_index, selected_subcontractor, after_queue,
                   tree, image_view, dialog, disk, idleVars>>

\* the except branches (lines 243-245, 323-325, 415-420): stop_loading, then
\* the error box, which the PDF worker hands to root.after
Except(t) ==
    /\ t \in DOMAIN workers
    /\ workers[t].pc = "except"
    /\ status' = "Ready"
    /\ IF workers[t].kind = "pdf"
          THEN /\ after_queue' = Append(after_queue, [call |-> "showerror"])
               /\ dialog' = dialog
          ELSE /\ after_queue' = after_queue
               /\ dialog' = "error"
    /\ workers' = [workers EXCEPT ![t] = Finished(@)]
    /\ lists' = Collect(lists, current_images, workers')
    /\ UNCHANGED <<raw_data, filtered_data, display_data, current_images,
                   current_image_index, selected_subcontractor,
                   tree, image_view, disk, idleVars>>

\* update_table, lines 277-299
update_table(d) ==
    IF d = None \/ d.rows = <<>> \/ d.columns = {}
        THEN TreeOf(<<>>, 0)
        ELSE TreeOf(d.rows, calculate_total_sum(d))

\* on_subcontractor_change, lines 251-275, after the combobox has taken the
\* name: the whole handler, load_images (lines 328-330) included
on_subcontractor_change(name) ==
    /\ selected_subcontractor' = name
    /\ IF falsy(name) \/ filtered_data = None
          THEN UNCHANGED <<display_data, tree, workers, dialog>>
          ELSE LET f == filter_by_subcontractor(filtered_data, name)
                   shown == IF f.out.kind = "returned"
                               THEN prepare_display_data(f.out.df)
                               ELSE f.out
               IN IF shown.kind = "returned"
                    THEN /\ display_data' = shown.df
                         /\ tree' = update_table(shown.df)
                         /\ workers' = Append(workers, Worker("images", f.out.df))
                         /\ dialog' = dialog
                    ELSE /\ dialog' = "error"
                         /\ UNCHANGED <<display_data, tree, workers>>
    /\ UNCHANGED <<raw_data, filtered_data, current_images, lists,
                   current_image_index, status, image_view, disk, idleVars>>

\* the user picks a name in the combobox
SelectSubcontractor ==
    /\ Started("images") < MaxSelections
    /\ \E name \in GuiNames : on_subcontractor_change(name)
    /\ UNCHANGED after_queue

\* lines 308-311: the URLs of the rows handed to load_images, and a new
\* empty list for current_images
ResetImages(t) ==
    /\ At(t, "images", "reset")
    /\ current_images' = Len(lists) + 1
    /\ lists' = Collect(Append(lists, <<>>), current_images', workers)
    /\ workers' = [workers EXCEPT
            ![t].image_urls = get_image_urls(workers[t].contractor_data),
            ![t].contractor_data = None,
            ![t].pc = "fetch"]
    /\ UNCHANGED <<raw_data, filtered_data, display_data,
                   current_image_index, selected_subcontractor, after_queue,
                   status, tree, image_view, dialog, disk, idleVars>>

\* lines 312-314, one turn of the loop: the image is appended to the list
\* current_images names at that moment
FetchImage(t) ==
    /\ At(t, "images", "fetch")
    /\ workers[t].i < Len(workers[t].image_urls)
    /\ LET url == workers[t].image_urls[workers[t].i + 1]
           image == get_image_from_url(DriveFiles, url)
       IN lists' = [lists EXCEPT ![current_images] = Append(@, image)]
    /\ workers' = [workers EXCEPT ![t].i = @ + 1]
    /\ UNCHANGED <<raw_data, filtered_data, display_data, current_images,
                   current_image_index, selected_subcontractor, after_queue,
                   status, tree, image_view, dialog, disk, idleVars>>

\* line 316, after the loop
ResetIndex(t) ==
    /\ At(t, "images", "fetch")
    /\ workers[t].i = Len(workers[t].image_urls)
    /\ current_image_index' = 0
    /\ workers' = [workers EXCEPT ![t].pc = "after"]
    /\ UNCHANGED <<raw_data, filtered_data, display_data, current_images, lists,
                   selected_subcontractor, after_queue,
                   status, tree, image_view, dialog, disk, idleVars>>

\* line 319: root.after(0, self.update_image_display)
ScheduleDisplay(t) ==
    /\ At(t, "images", "after")
    /\ after_queue' = Append(after_queue, [call |-> "update_image_display"])
    /\ workers' = [workers EXCEPT ![t].pc = "stop"]
    /\ UNCHANGED <<raw_data, filtered_data, display_data, current_images, lists,
                   current_image_index, selected_subcontractor,
                   status, tree, image_view, dialog, disk, idleVars>>

\* update_image_display, lines 332-375.  An index past the end raises at
\* line 351 and pixels that do not decode raise at line 371, both after the
\* counter has been set.
update_image_display(images, index) ==
    IF images = <<>>
        THEN [counter |-> <<0, 0>>, label |-> "No images available"]
    ELSE LET counter == <<index + 1, Len(images)>>
         IN IF index + 1 > Len(images)
              THEN [counter |-> counter, label |-> image_view.label]
            ELSE IF images[index + 1] = NoImage
              THEN [counter |-> counter, label |-> "Image not available"]
            ELSE IF ~resize_by(images[index + 1],
                        MinRatio(<<400, images[index + 1].width>>,
                                 <<500, images[index + 1].height>>)).ok
              THEN [counter |-> counter, label |-> image_view.label]
            ELSE [counter |-> counter, label |-> "photo"]

\* the event loop runs the oldest callback handed to root.after: the image
\* display or a message box
RunAfter ==
    /\ after_queue # <<>>
    /\ Head(after_queue).call # "restore_selection"
    /\ after_queue' = Tail(after_queue)
    /\ IF Head(after_queue).call = "update_image_display"
          THEN /\ image_view' = update_image_display(lists[current_images],
                                                     current_image_index)
               /\ dialog' = dialog
          ELSE /\ image_view' = image_view
               /\ dialog' = Head(after_queue).call
    /\ UNCHANGED <<raw_data, filtered_data, display_data, current_images, lists,
                   current_image_index, selected_subcontractor, workers,
                   status, tree, disk, idleVars>>

\* prev_image, lines 377-381
prev_image ==
    /\ current_image_index > 0
    /\ current_image_index' = current_image_index - 1
    /\ image_view' = update_image_display(lists[current_images],
                                          current_image_index')
    /\ UNCHANGED <<raw_data, filtered_data, display_data, current_images, lists,
                   selected_subcontractor, workers, after_queue,
                   status, tree, dialog, disk, idleVars>>

\* next_image, lines 383-387
next_image ==
    /\ current_image_index < Len(lists[current_images]) - 1
    /\ current_image_index' = current_image_index + 1
    /\ image_view' = update_image_display(lists[current_images],
                                          current_image_index')
    /\ UNCHANGED <<raw_data, filtered_data, display_data, current_images, lists,
                   selected_subcontractor, workers, after_queue,
                   status, tree, dialog, disk, idleVars>>

\* InvoiceApp.generate_pdf, lines 389-424: the two guards, then the thread
ClickGeneratePdf ==
    /\ Started("pdf") < MaxReports
    /\ IF display_data = None \/ display_data.rows = <<>>
          THEN /\ dialog' = "No data to generate PDF"
               /\ workers' = workers
        ELSE IF falsy(selected_subcontractor)
          THEN /\ dialog' = "Please select a subcontractor"
               /\ workers' = workers
        ELSE /\ dialog' = dialog
             /\ workers' = Append(workers, Worker("pdf", None))
    /\ UNCHANGED <<raw_data, filtered_data, display_data, current_images, lists,
                   current_image_index, selected_subcontractor, after_queue,
                   status, tree, image_view, disk, idleVars>>

\* lines 404-408 and data_processor.py lines 143-190: the three fields are
\* read, the directory is made and the story is built up to the table
PdfCall(t) ==
    /\ At(t, "pdf", "call")
    /\ LET made == makedirs(disk, DefaultOutputDir)
           filepath == report_path(DefaultOutputDir, selected_subcontractor, today)
       IN /\ disk' = made.disk
          /\ workers' = [workers EXCEPT
                ![t].images = current_images,
                ![t].filepath = filepath,
                ![t].story = build_story(display_data, <<>>,
                                         selected_subcontractor, today),
                ![t].pc = IF made.ok THEN "images" ELSE "except"]
    /\ UNCHANGED <<raw_data, filtered_data, display_data, current_images, lists,
                   current_image_index, selected_subcontractor, after_queue,
                   status, tree, image_view, dialog, idleVars>>

\* data_processor.py lines 195-240, one turn of the loop over the list that
\* was passed, as it is at that moment
PdfImage(t) ==
    /\ At(t, "pdf", "images")
    /\ workers[t].i < Len(lists[workers[t].images])
    /\ workers' = [workers EXCEPT
            ![t].story = @ \o image_flowables(lists[workers[t].images][workers[t].i + 1]),
            ![t].i = @ + 1]
    /\ UNCHANGED <<raw_data, filtered_data, display_data, current_images, lists,
                   current_image_index, selected_subcontractor, after_queue,
                   status, tree, image_view, dialog, disk, idleVars>>

\* data_processor.py lines 244-251, after the loop: doc.build writes the file
PdfBuild(t) ==
    /\ At(t, "pdf", "images")
    /\ workers[t].i = Len(lists[workers[t].images])
    /\ IF Parent(workers[t].filepath) \in disk.dirs
          THEN /\ disk' = write_file(disk, workers[t].filepath, workers[t].story)
               /\ workers' = [workers EXCEPT
                     ![t] = [Worker("pdf", None) EXCEPT !.pc = "stop"]]
          ELSE /\ disk' = disk
               /\ workers' = [workers EXCEPT
                     ![t] = [Worker("pdf", None) EXCEPT !.pc = "except"]]
    /\ lists' = Collect(lists, current_images, workers')
    /\ UNCHANGED <<raw_data, filtered_data, display_data, current_images,
                   current_image_index, selected_subcontractor, after_queue,
                   status, tree, image_view, dialog, idleVars>>

\* line 413: the success box is handed to root.after
PdfNotify(t) ==
    /\ At(t, "pdf", "notify")
    /\ after_queue' = Append(after_queue, [call |-> "showinfo"])
    /\ workers' = [workers EXCEPT ![t] = Finished(@)]
    /\ UNCHANGED <<raw_data, filtered_data, display_data, current_images, lists,
                   current_image_index, selected_subcontractor,
                   status, tree, image_view, dialog, disk, idleVars>>

WorkerIds == 1..(1 + MaxSelections + MaxReports)

Next ==
    \/ \E t \in WorkerIds : StartLoading(t)
    \/ \E t \in WorkerIds : LoadSheet(t)
    \/ \E t \in WorkerIds : FilterSheet(t)
    \/ \E t \in WorkerIds : StopLoading(t)
    \/ \E t \in WorkerIds : Except(t)
    \/ SelectSubcontractor
    \/ \E t \in WorkerIds : ResetImages(t)
    \/ \E t \in WorkerIds : FetchImage(t)
    \/ \E t \in WorkerIds : ResetIndex(t)
    \/ \E t \in WorkerIds : ScheduleDisplay(t)
    \/ RunAfter
    \/ prev_image
    \/ next_image
    \/ ClickGeneratePdf
    \/ \E t \in WorkerIds : PdfCall(t)
    \/ \E t \in WorkerIds : PdfImage(t)
    \/ \E t \in WorkerIds : PdfBuild(t)
    \/ \E t \in WorkerIds : PdfNotify(t)

Spec == Init /\ [][Next]_vars

\* thread t takes a step: its position or its locals change
Moved(t) == t \in DOMAIN workers /\ workers'[t] # workers[t]

\* Every started thread keeps being scheduled: a thread that has not
\* returned always has a next statement to run, so weak fairness of its
\* steps is that it returns or moves again and again.  The event loop
\* (mainloop) keeps running the callbacks handed to root.after.  The user
\* owes no click.
FairSpec ==
    /\ Spec
    /\ \A t \in WorkerIds : []<>(~(t \in DOMAIN workers /\ Running(t))) \/ []<><<Moved(t)>>_workers
    /\ WF_after_queue(RunAfter)

-----------------------------------------------------------------------------
(* InvoiceApp: refresh_data, and selections that overlap                   *)

\* most load_images workers started by selections of the user, and most
\* clicks on Refresh
MaxOverlap == 2
MaxRefreshes == 1

\* the user picks a name in the combobox, also while an earlier selection's
\* images are still loading
SelectAgain ==
    /\ Started("images") < MaxOverlap
    /\ \E name \in GuiNames : on_subcontractor_change(name)
    /\ UNCHANGED after_queue

\* refresh_data, lines 426-451: the selection is remembered and the thread
\* is started
ClickRefresh ==
    /\ Started("refresh") < MaxRefreshes
    /\ workers' = Append(workers,
            [Worker("refresh", None) EXCEPT
                !.current_selection = selected_subcontractor])
    /\ UNCHANGED <<raw_data, filtered_data, display_data, current_images, lists,
                   current_image_index, selected_subcontractor, after_queue,
                   status, tree, image_view, dialog, disk, idleVars>>

\* lines 440-441: restore_selection is handed to root.after when a name was
\* selected at the click
ScheduleRestore(t) ==
    /\ At(t, "refresh", "restore")
    /\ after_queue' =
          IF falsy(workers[t].current_selection)
             THEN after_queue
             ELSE Append(after_queue,
                         [call |-> "restore_selection",
                          subcontractor |-> workers[t].current_selection])
    /\ workers' = [workers EXCEPT ![t].pc = "stop"]
    /\ UNCHANGED <<raw_data, filtered_data, display_data, current_images, lists,
                   current_image_index, selected_subcontractor,
                   status, tree, image_view, dialog, disk, idleVars>>

\* restore_selection, lines 453-456, run by the event loop: the combobox is
\* set to the remembered name and the selection handler is called
restore_selection ==
    /\ after_queue # <<>>
    /\ Head(after_queue).call = "restore_selection"
    /\ after_queue' = Tail(after_queue)
    /\ on_subcontractor_change(Head(after_queue).subcontractor)

ThreadIds == 1..(1 + MaxSelections + MaxOverlap + 2 * MaxRefreshes)

\* the session with Refresh: the load of __init__, one selection by the
\* user, the refresh and the selection it restores
NextRefresh ==
    \/ \E t \in ThreadIds : StartLoading(t)
    \/ \E t \in ThreadIds : LoadSheet(t)
    \/ \E t \in ThreadIds : FilterSheet(t)
    \/ \E t \in ThreadIds : StopLoading(t)
    \/ \E t \in ThreadIds : Except(t)
    \/ SelectSubcontractor
    \/ \E t \in ThreadIds : ResetImages(t)
    \/ \E t \in ThreadIds : FetchImage(t)
    \/ \E t \in ThreadIds : ResetIndex(t)
    \/ \E t \in ThreadIds : ScheduleDisplay(t)
    \/ RunAfter
    \/ ClickRefresh
    \/ \E t \in ThreadIds : ScheduleRestore(t)
    \/ restore_selection

SpecRefresh == Init /\ [][NextRefresh]_vars

\* the application once the load of __init__ has succeeded and its thread
\* has returned
InitLoaded ==
    /\ \E r \in filter_invoice_data(SheetData) :
          /\ r.out.kind = "returned"
          /\ raw_data = r.df
          /\ filtered_data = r.out.df
    /\ display_data = None
    /\ lists = << <<>> >>
    /\ current_images = 1
    /\ current_image_index = 0
    /\ selected_subcontractor = NoSelection
    /\ after_queue = <<>>
    /\ status = "Ready"
    /\ tree = TreeOf(<<>>, 0)
    /\ image_view = [counter |-> <<0, 0>>, label |-> "No image available"]
    /\ dialog = "none"
    /\ workers = << Finished(Worker("load", None)) >>
    /\ disk = EmptyDisk
    /\ today = StartDate
    /\ args = NoArgs
    /\ calls = 0
    /\ FilterIdle
    /\ out = NoCall
    /\ pc = "start"

\* selections that follow one another while the images of the earlier one
\* are still loading, and the image buttons
NextOverlap ==
    \/ SelectAgain
    \/ \E t \in ThreadIds : StartLoading(t)
    \/ \E t \in ThreadIds : ResetImages(t)
    \/ \E t \in ThreadIds : FetchImage(t)
    \/ \E t \in ThreadIds : ResetIndex(t)
    \/ \E t \in ThreadIds : ScheduleDisplay(t)
    \/ \E t \in ThreadIds : StopLoading(t)
    \/ RunAfter
    \/ prev_image
    \/ next_image

SpecOverlap == InitLoaded /\ [][NextOverlap]_vars

-----------------------------------------------------------------------------
(* Claims about filter_invoice_data                                        *)

Called == pc = "filtered"

OutRows == IF out.kind = "returned" THEN out.df.rows ELSE <<>>

Occurrences(index) ==
    Cardinality({ k \in 1..Len(OutRows) : OutRows[k].index = index })

\* the rule of the claim, on the cells as they were passed in
ClaimKeeps(cells) ==
    LET a == cells["Approval Status"]
        st == cells["Invoice Status"]
    IN /\ ~isna(a)
       /\ str_lower(str_strip(a)) \in
             { <<"a","p","p","r","o","v","e","d">>, <<"a","p","r","o","b","a","d","o">> }
       /\ \/ isna(st)
          \/ str_strip(st) \in { <<>>, <<"n","a","n">>, <<"N","o","n","e">> }

HasStatusColumns == {"Approval Status", "Invoice Status", "Name"} \subseteq df_in.columns

\* C1: on a frame that has the Approval Status, Invoice Status and Name
\* columns, filter_invoice_data returns a frame in which a row of the input
\* occurs once if its Approval Status (trimmed, lower-cased) is 'approved' or
\* 'aprobado' and its Invoice Status (trimmed) is empty, 'nan', 'None',
\* blank or missing, and does not occur otherwise; no other row occurs.
C1_KeepsExactlyApprovedUnpaid ==
    (Called /\ HasStatusColumns) =>
        /\ out.kind = "returned"
        /\ \A i \in 1..Len(df_in.rows) :
              Occurrences(df_in.rows[i].index) =
                  IF ClaimKeeps(df_in.rows[i].cells) THEN 1 ELSE 0
        /\ \A k \in 1..Len(OutRows) :
              \E i \in 1..Len(df_in.rows) : df_in.rows[i].index = OutRows[k].index

\* a padded, capitalised approval with a missing status was kept, and a paid
\* row of the same input was dropped
C1_Witness ==
    /\ Called /\ out.kind = "returned"
    /\ \E i, j \in 1..Len(df_in.rows) :
          /\ df_in.rows[i].cells["Approval Status"] = <<" ","A","p","p","r","o","v","e","d"," ">>
          /\ df_in.rows[i].cells["Invoice Status"] = NaN
          /\ Occurrences(df_in.rows[i].index) = 1
          /\ df_in.rows[j].cells["Invoice Status"] = <<" ","P","a","i","d">>
          /\ Occurrences(df_in.rows[j].index) = 0

\* C2: filter_invoice_data leaves the frame it was passed as it was: after
\* the call every cell of the caller's frame has the value it had before.
C2_InputNotMutated == Called => df = df_in

SameKey(r1, r2) == r1.cells[TimestampCol] = r2.cells[TimestampCol]

\* C3: the sort by Invoice Timestamp is stable: two surviving rows whose
\* timestamps are equal, or both unparseable, keep their input order.
C3_SortIsStable ==
    (Called /\ out.kind = "returned" /\ TimestampCol \in df_in.columns) =>
        \A k, l \in 1..Len(OutRows) :
            (k < l /\ SameKey(OutRows[k], OutRows[l])) =>
                OutRows[k].index < OutRows[l].index

\* text that float() / pd.to_numeric accepts: digits with at most one point
IsNumberText(v) ==
    LET t == str_strip(v)
    IN /\ ~isna(v)
       /\ \E i \in 1..Len(t) : IsDigit(t[i])
       /\ \A i \in 1..Len(t) : IsDigit(t[i]) \/ t[i] = "."
       /\ Cardinality({ i \in 1..Len(t) : t[i] = "." }) <= 1

\* C4 as stated: every row of the output has a non-empty Name, Approval
\* Status and Invoice Status, and a Total that parses as a number.
C4_OutputFieldsNonEmpty ==
    (Called /\ out.kind = "returned") =>
        \A k \in 1..Len(OutRows) :
            /\ OutRows[k].cells["Name"] # <<>>
            /\ OutRows[k].cells["Approval Status"] # <<>>
            /\ OutRows[k].cells["Invoice Status"] # <<>>
            /\ IsNumberText(OutRows[k].cells["Total"])

\* C4 as amended: every row of the output has a non-empty Approval Status,
\* 'approved' or 'aprobado', and an Invoice Status that is empty or one of
\* the texts 'nan' and 'None'; Name and Total pass through unchecked.
C4_OutputStatuses ==
    (Called /\ out.kind = "returned") =>
        \A k \in 1..Len(OutRows) :
            /\ OutRows[k].cells["Approval Status"] # <<>>
            /\ OutRows[k].cells["Approval Status"] \in
                  { <<"a","p","p","r","o","v","e","d">>, <<"a","p","r","o","b","a","d","o">> }
            /\ OutRows[k].cells["Invoice Status"] \in
                  { <<>>, <<"n","a","n">>, <<"N","o","n","e">> }

\* an output row with an empty Name, an unparseable Total and an Invoice
\* Status that was missing in the sheet
C4_Witness ==
    /\ Called /\ out.kind = "returned"
    /\ \E k, l \in 1..Len(OutRows) :
          /\ OutRows[k].cells["Name"] = <<>>
          /\ OutRows[k].cells["Total"] = <<"n","/","a">>
          /\ OutRows[k].cells["Invoice Status"] = <<>>
          /\ OutRows[l].cells["Invoice Status"] = <<"n","a","n">>

-----------------------------------------------------------------------------
(* Claims about filter_by_subcontractor                                    *)

Selected == pc = "selected"

\* name occurs in text as a literal substring, letter case ignored
ContainsLiteral(text, name) ==
    \E pos \in 0..Len(text) :
        /\ pos + Len(name) <= Len(text)
        /\ \A i \in 1..Len(name) : LowerChar(name[i]) = LowerChar(text[pos + i])

LiteralMatches(rows, name) ==
    SelectRows(rows,
        [i \in 1..Len(rows) |->
            /\ ~isna(rows[i].cells["Name"])
            /\ ContainsLiteral(rows[i].cells["Name"], name)])

\* C5: for every name, filter_by_subcontractor returns, without raising,
\* exactly the rows whose Name contains the name as a literal substring
\* (letter case ignored), in input order, a missing Name being no match.
C5_LiteralSubstring ==
    Selected =>
        /\ out.kind = "returned"
        /\ out.df.rows = LiteralMatches(df_in.rows, sub_name)

-----------------------------------------------------------------------------
(* Claims about the report                                                 *)

Generated == pc = "generated" /\ args.kind = "report"

FileAt(path) == CHOOSE f \in disk.files : f.path = path

Tables(story) == { i \in 1..Len(story) : story[i].kind = "Table" }

LastRow(data) == data[Len(data)]

\* some table of the story ends in a row with a cell showing the text
ShowsInTotalRow(story, text) ==
    \E i \in Tables(story) :
        /\ story[i].data # <<>>
        /\ \E j \in 1..Len(LastRow(story[i].data)) :
              /\ LastRow(story[i].data)[j].kind = "str"
              /\ LastRow(story[i].data)[j].text = text

\* C7: a report is never overwritten: a file that is on disk stays on disk
\* with the content it has, whatever generate_pdf calls follow.
C7_ReportNeverOverwritten ==
    [][\A f \in disk.files : f \in disk'.files]_vars

EmptyReport ==
    Generated /\ args.display_df.rows = <<>> /\ args.images = <<>>

\* the report file can be created: the output directory can, and the file
\* name puts the file directly in it
CanCreate ==
    /\ args.output_dir \in { << <<"p","d","f","s">> >> }
    /\ \A i \in 1..Len(args.subcontractor_name) : args.subcontractor_name[i] # "/"

RECURSIVE Gcd(_, _)
Gcd(a, b) == IF b = 0 THEN a ELSE Gcd(b, a % b)

Lowest(fr) == <<fr[1] \div Gcd(fr[1], fr[2]), fr[2] \div Gcd(fr[1], fr[2])>>

KeepsAspect(im) ==
    LET w == Lowest(im.width)
        h == Lowest(im.height)
    IN w[1] * h[2] * im.size[2] = h[1] * w[2] * im.size[1]

FitsPage(im) ==
    /\ im.width[1] <= max_width * im.width[2]
    /\ im.height[1] <= max_height * im.height[2]

NotUpscaled(im) ==
    /\ im.width[1] <= im.size[1] * im.width[2]
    /\ im.height[1] <= im.size[2] * im.height[2]

\* C10: every image placed in a report is drawn with its aspect ratio, within
\* the maximum printable area, and no larger than the image itself.
C10_ImagesFitWithoutUpscaling ==
    \A f \in disk.files :
        \A i \in 1..Len(f.story) :
            f.story[i].kind = "Image" =>
                /\ KeepsAspect(f.story[i])
                /\ FitsPage(f.story[i])
                /\ NotUpscaled(f.story[i])

-----------------------------------------------------------------------------
(* Claims about get_table_data_for_pdf                                     *)

Tabled == pc = "tabled" /\ args.kind = "table" /\ args.display_df.rows # <<>>

\* the position of the column whose header is 'Total'
TotalColumn == CHOOSE k \in 1..Len(headers) : headers[k].text = <<"T","o","t","a","l">>

\* the sum of the rows' Total, in cents
ClaimSum(rows, n) ==
    LET S[k \in 0..n] == IF k = 0 THEN 0 ELSE S[k - 1] + rows[k].cells["Total"]
    IN S[n]

\* the cents a two-decimal currency text stands for: '$', an optional '-',
\* digits, '.', two digits; -1 - 10^9 for any other text
NotMoney == 0 - 1000000001

MoneyValue(t) ==
    LET neg == Len(t) >= 2 /\ t[2] = "-"
        body == IF neg THEN SubSeq(t, 3, Len(t)) ELSE SubSeq(t, 2, Len(t))
        n == Len(body)
    IN IF /\ Len(t) >= 1 /\ t[1] = "$"
          /\ n >= 4
          /\ body[n - 2] = "."
          /\ \A i \in (1..n) \ {n - 2} : IsDigit(body[i])
       THEN LET cents == 100 * DigitsValue(SubSeq(body, 1, n - 3))
                         + DigitsValue(SubSeq(body, n - 1, n))
            IN IF neg THEN 0 - cents ELSE cents
       ELSE NotMoney

\* C9 as stated: the last row of the table is the total row and its cell in
\* the column headed 'Total' holds the sum of the rows' Total as two-decimal
\* currency.
C9_SumUnderTotalHeader ==
    Tabled =>
        LET last == LastRow(out.table_data)
        IN /\ last[TotalColumn].kind = "str"
           /\ MoneyValue(last[TotalColumn].text) =
                  ClaimSum(args.display_df.rows, Len(args.display_df.rows))

\* C9 as amended: the table is the header row, one row per display row and
\* the total row; the total row's cell in the column headed 'Total' holds the
\* label 'TOTAL:' and the cell after it, under 'Invoice Link', holds the sum
\* of the rows' Total as two-decimal currency.
C9_SumAfterTotalLabel ==
    Tabled =>
        LET last == LastRow(out.table_data)
        IN /\ Len(out.table_data) = Len(args.display_df.rows) + 2
           /\ out.table_data[1] = headers
           /\ last[TotalColumn] = Str(TotalLabel)
           /\ last[TotalColumn + 1].kind = "str"
           /\ MoneyValue(last[TotalColumn + 1].text) =
                  ClaimSum(args.display_df.rows, Len(args.display_df.rows))

\* two rows whose amounts, one of them negative, add up to 7.49
C9_Witness ==
    /\ Tabled
    /\ Len(args.display_df.rows) = 2
    /\ args.display_df.rows[1].cells["Total"] = 999
    /\ args.display_df.rows[2].cells["Total"] = 0 - 250
    /\ LastRow(out.table_data)[5].text = <<"$","7",".","4","9">>

-----------------------------------------------------------------------------
(* Claims about the threads of InvoiceApp                                  *)

\* a PDF worker is inside generate_pdf with the list it took from current_images
ReadsImages(t) == At(t, "pdf", "images")

LoadsImages(t) == t \in DOMAIN workers /\ workers[t].kind = "images" /\ Running(t)

\* the image URLs of the selected subcontractor's rows, in row order
SelectedUrls ==
    get_image_urls(filter_by_subcontractor(filtered_data, selected_subcontractor).out.df)

\* one entry per URL, in URL order
Resolved(urls) == [k \in 1..Len(urls) |-> get_image_from_url(DriveFiles, urls[k])]

\* C6: image loading is joined before report generation begins: whenever
\* generate_pdf reads current_images, no load_images worker is still running
\* and the list holds one entry per image URL of the selected
\* subcontractor's rows, in the original URL order.
C6_ImagesJoinedBeforeReport ==
    \A t \in DOMAIN workers :
        ReadsImages(t) =>
            /\ ~(\E u \in DOMAIN workers : LoadsImages(u))
            /\ lists[workers[t].images] = Resolved(SelectedUrls)

-----------------------------------------------------------------------------
(* Claims about optimize_image_for_pdf                                     *)

Optimized == pc = "optimized"

\* the size of the input once its EXIF orientation is applied
UprightSize(image) ==
    IF image.orientation \in {6, 8}
        THEN <<image.height, image.width>>
        ELSE <<image.width, image.height>>

\* C11: for every image of positive width and height whose pixels decode,
\* the image optimize_image_for_pdf returns is at most 600 wide and 800 high,
\* and neither dimension is larger than the (upright) input's.
C11_OptimizedWithinCap ==
    (Optimized /\ args.image.decodes) =>
        /\ out.image.width <= 600
        /\ out.image.height <= 800
        /\ out.image.width <= UprightSize(args.image)[1]
        /\ out.image.height <= UprightSize(args.image)[2]

\* <subcontractor_name>_Invoice_<YYYY-MM-DD>.pdf as one file name
ReportFileName(subcontractor_name, date) ==
    subcontractor_name \o <<"_","I","n","v","o","i","c","e","_">>
        \o strftime_date(date) \o <<".","p","d","f">>

\* C12: a successful generate_pdf leaves the output directory on disk and
\* returns the path of a file that is on disk, lies directly inside
\* output_dir and is named <subcontractor_name>_Invoice_<YYYY-MM-DD>.pdf.
C12_ReportDirectlyInOutputDir ==
    (Generated /\ out.kind = "returned") =>
        /\ args.output_dir \in disk.dirs
        /\ \E f \in disk.files : f.path = out.filepath
        /\ out.filepath =
              args.output_dir \o <<ReportFileName(args.subcontractor_name, args.date)>>

-----------------------------------------------------------------------------
(* Claims about get_image_from_url and the image loop                      *)

IsImageOrNone(image) == image.kind \in {"Image", "None"}

\* C13: get_image_from_url never raises: for every reference and every
\* outcome of the Drive API it returns an image or None, so the loop of
\* load_images never aborts and appends exactly one entry per URL.
C13_ImageLoopNeverAborts ==
    /\ pc # "aborted"
    /\ \A url \in RefInputs, drive \in DriveInputs :
          IsImageOrNone(get_image_from_url(drive, url))
    /\ \A k \in 1..Len(out.current_images) : IsImageOrNone(out.current_images[k])
    /\ pc = "fetched" => Len(out.current_images) = Len(args.image_urls)

\* a batch of two references to files that Drive fails to serve has run through
C13_Witness ==
    /\ pc = "fetched"
    /\ Len(args.image_urls) = 2
    /\ \A k \in 1..2 :
          /\ requested_ids(args.image_urls[k]) # <<>>
          /\ download_image(args.drive, requested_ids(args.image_urls[k])[1]).kind = "raised"
          /\ out.current_images[k] = NoImage

-----------------------------------------------------------------------------
(* Claims about the images of a report                                     *)

Flowables(story, kind) == { i \in 1..Len(story) : story[i].kind = kind }

\* generate_pdf can process the image: it is there and its pixels decode
Processable(image) == image # NoImage /\ image.decodes

\* the list has two entries: one that can be processed, and one that is None
\* or raises while it is processed
OneGoodOneBad(images) ==
    /\ Len(images) = 2
    /\ \E k \in 1..2 : Processable(images[k]) /\ ~Processable(images[3 - k])

\* the flowable starts a page of its own: the one before it is a page break
StartsOwnPage(story, i) == i > 1 /\ story[i - 1].kind = "PageBreak"

C14_Case == Generated /\ CanCreate /\ OneGoodOneBad(args.images)

\* the report is written, with its table, and holds exactly one image, after
\* the table
C14_OneImageAfterTable ==
    C14_Case =>
        /\ out.kind = "returned"
        /\ LET story == FileAt(out.filepath).story
           IN /\ Cardinality(Flowables(story, "Image")) = 1
              /\ args.display_df.rows # <<>> =>
                    /\ Cardinality(Tables(story)) = 1
                    /\ \A t \in Tables(story) :
                          /\ story[t].data = get_table_data_for_pdf(args.display_df)
                          /\ \A i \in Flowables(story, "Image") : t < i

\* C14: with one resolved image and one entry that is None or raises while it
\* is processed, generate_pdf succeeds, keeps the table, and the document has
\* exactly one image, placed on its own page after the table.
C14_OneImageOnOwnPage ==
    /\ C14_OneImageAfterTable
    /\ C14_Case =>
          \A i \in Flowables(FileAt(out.filepath).story, "Image") :
              StartsOwnPage(FileAt(out.filepath).story, i)

-----------------------------------------------------------------------------
(* Claims about prepare_display_data and process_location                 *)

Displayed == pc = "displayed"

\* text that numeric parsing accepts: an optional sign, digits, at most one point
ParsesAsNumber(v) ==
    LET t == str_strip(v)
        body == IF t # <<>> /\ Head(t) \in {"-", "+"} THEN Tail(t) ELSE t
    IN /\ ~isna(v)
       /\ \E i \in 1..Len(body) : IsDigit(body[i])
       /\ \A i \in 1..Len(body) : IsDigit(body[i]) \/ body[i] = "."
       /\ Cardinality({ i \in 1..Len(body) : body[i] = "." }) <= 1

\* C15: for every row set with the columns Location, Invoice #, WO #, Total
\* and an image-reference column under one of the accepted names,
\* prepare_display_data returns without error one display row per input
\* row, in input order, with exactly five fields and a numeric Total that is
\* 0 when the source value is no number; for an empty input, no rows.
C15_OneDisplayRowPerInputRow ==
    Displayed =>
        /\ out.kind = "returned"
        /\ Len(out.df.rows) = Len(args.df.rows)
        /\ Cardinality(out.df.columns) = 5
        /\ {"Location", "Invoice #", "WO #", "Total"} \subseteq out.df.columns
        /\ \A k \in 1..Len(args.df.rows) :
              /\ out.df.rows[k].index = args.df.rows[k].index
              /\ DOMAIN out.df.rows[k].cells = out.df.columns
              /\ out.df.rows[k].cells["Total"] \in Int
              /\ ~ParsesAsNumber(args.df.rows[k].cells["Total"]) =>
                    out.df.rows[k].cells["Total"] = 0

Located == pc = "located"

\* the places where the address has ", Washington, District of Columbia" and
\* a five-digit zip, in any letter case, with the white space the pattern allows
SuffixPlaces(text) == { i \in 1..Len(text) : LocationPatternAt(text, i) }

\* what the claim promises for an address
CleanLocation(location) ==
    IF isna(location) \/ location = <<>> THEN <<>>
    ELSE IF SuffixPlaces(location) = {} THEN str_strip(location)
    ELSE LET first == CHOOSE i \in SuffixPlaces(location) :
                          \A j \in SuffixPlaces(location) : i <= j
         IN str_strip(SubSeq(location, 1, first - 1))

\* C16: process_location returns the text before the first Washington
\* suffix, trimmed, with the zip and all text after it removed; an address
\* without the suffix is returned trimmed; an empty or missing address gives
\* the empty string.
C16_LocationCutAtSuffix ==
    Located => out.text = CleanLocation(args.location)

-----------------------------------------------------------------------------
(* Claims about the file identifier of a reference                        *)

\* the reference without surrounding white space and without its leading @
WithoutAt(ref) ==
    IF isna(ref) THEN <<>>
    ELSE LET t == str_strip(ref)
         IN IF t # <<>> /\ Head(t) = "@" THEN Tail(t) ELSE t

\* the text from position i up to the next of the stop characters
RECURSIVE ValueFrom(_, _, _)
ValueFrom(text, i, stops) ==
    IF i <= Len(text) /\ text[i] \notin stops
        THEN <<text[i]>> \o ValueFrom(text, i + 1, stops)
        ELSE <<>>

\* the value of the query parameter id, <<>> if there is none
QueryParameterId(text) ==
    LET at == { i \in 1..Len(text) :
                  /\ text[i] \in {"?", "&"}
                  /\ i + 3 <= Len(text)
                  /\ text[i + 1] = "i" /\ text[i + 2] = "d" /\ text[i + 3] = "="
                  /\ ValueFrom(text, i + 4, {"&", "#"}) # <<>> }
    IN IF at = {} THEN <<>>
       ELSE ValueFrom(text, (CHOOSE i \in at : \A j \in at : i <= j) + 4, {"&", "#"})

\* the path segment that follows the segment d, <<>> if there is none
PathSegmentId(text) ==
    LET at == { i \in 1..Len(text) :
                  /\ i + 2 <= Len(text)
                  /\ text[i] = "/" /\ text[i + 1] = "d" /\ text[i + 2] = "/"
                  /\ ValueFrom(text, i + 3, {"/", "?", "#"}) # <<>> }
    IN IF at = {} THEN <<>>
       ELSE ValueFrom(text, (CHOOSE i \in at : \A j \in at : i <= j) + 3, {"/", "?", "#"})

\* the identifier the claim promises for a reference
ClaimedId(ref) ==
    IF QueryParameterId(WithoutAt(ref)) # <<>>
        THEN QueryParameterId(WithoutAt(ref))
        ELSE PathSegmentId(WithoutAt(ref))

\* the identifiers the claim lets the loop ask Drive for, for the first n references
RECURSIVE ClaimedRequests(_, _)
ClaimedRequests(refs, n) ==
    IF n = 0 THEN <<>>
    ELSE ClaimedRequests(refs, n - 1) \o
            (IF ClaimedId(refs[n]) = <<>> THEN <<>> ELSE <<ClaimedId(refs[n])>>)

\* C17: after a leading @ is stripped, the identifier is <ID> for a
\* reference with the query parameter id=<ID> and for one with the path
\* segment /d/<ID>/, the query parameter first; a reference of neither shape
\* gives None and Drive is not asked.
C17_IdOfBothShapes ==
    /\ out.requested = ClaimedRequests(args.image_urls, Len(out.current_images))
    /\ \A k \in 1..Len(out.current_images) :
          ClaimedId(args.image_urls[k]) = <<>> => out.current_images[k] = NoImage

\* a batch is through that held a reference of both shapes and one of neither
C17_Witness ==
    /\ pc = "fetched"
    /\ \E k \in 1..Len(args.image_urls) :
          /\ QueryParameterId(WithoutAt(args.image_urls[k])) # <<>>
          /\ PathSegmentId(WithoutAt(args.image_urls[k])) # <<>>
          /\ Head(str_strip(args.image_urls[k])) = "@"
    /\ \E k \in 1..Len(args.image_urls) :
          /\ ~isna(args.image_urls[k])
          /\ args.image_urls[k] # <<>>
          /\ ClaimedId(args.image_urls[k]) = <<>>
    /\ Len(out.requested) = 1

-----------------------------------------------------------------------------
(* Further claims about filter_invoice_data                                *)

StatusColumnAbsent ==
    "Approval Status" \notin df_in.columns \/ "Invoice Status" \notin df_in.columns

\* an Invoice Status or Approval Status cell that is empty or missing
HasEmptyStatus ==
    \E k \in 1..Len(df_in.rows) :
        \/ df_in.rows[k].cells["Invoice Status"] \in {<<>>, NaN}
        \/ df_in.rows[k].cells["Approval Status"] \in {<<>>, NaN}

\* C18: filter_invoice_data fails with the error whose message starts
\* 'Failed to filter data', and returns no rows, whenever the Approval Status
\* or the Invoice Status column is absent; it does not fail because a status
\* value is empty.
C18_FailsOnlyWithoutStatusColumn ==
    Called =>
        /\ StatusColumnAbsent =>
              /\ out.kind = "raised"
              /\ SubSeq(out.msg, 1, Len(FilterError)) = FilterError
        /\ (HasStatusColumns /\ HasEmptyStatus) => out.kind = "returned"

\* a frame with rows and without a status column has been answered
C18_Witness ==
    /\ Called
    /\ StatusColumnAbsent
    /\ df_in.rows # <<>>
    /\ out.kind = "raised"

\* the row of the input that an output row comes from
InputRow(r) == CHOOSE x \in { df_in.rows[i] : i \in 1..Len(df_in.rows) } : x.index = r.index

\* the parsed timestamp of an output row, from the text the input had
ParsedTimestamp(r) == to_datetime(InputRow(r).cells[TimestampCol])

\* C19: with an Invoice Timestamp column, the output of filter_invoice_data
\* is in ascending order of the parsed timestamp, and every row whose
\* timestamp does not parse comes after every row whose timestamp parses.
C19_AscendingUnparseableLast ==
    (Called /\ out.kind = "returned" /\ TimestampCol \in df_in.columns) =>
        \A k, l \in 1..Len(OutRows) :
            k < l =>
                /\ ParsedTimestamp(OutRows[l]) # NaT =>
                      /\ ParsedTimestamp(OutRows[k]) # NaT
                      /\ ParsedTimestamp(OutRows[k]) <= ParsedTimestamp(OutRows[l])

\* the sort has moved a row with an unparseable timestamp behind a later row
C19_Witness ==
    /\ Called
    /\ out.kind = "returned"
    /\ TimestampCol \in df_in.columns
    /\ Len(OutRows) = 2
    /\ ParsedTimestamp(OutRows[1]) # NaT
    /\ ParsedTimestamp(OutRows[2]) = NaT
    /\ OutRows[2].index < OutRows[1].index

-----------------------------------------------------------------------------
(* Claims about format_currency                                            *)

Formatted == pc = "formatted"

\* the amount is a number: a numeric value, or text that is a decimal number
IsNumericAmount(amount) ==
    \/ amount.type = "number"
    \/ amount.type = "str" /\ ParsesAsNumber(amount.text)

\* the value of a numeric amount, in cents
AmountCents(amount) ==
    IF amount.type = "number" THEN amount.cents ELSE to_numeric(amount.text)

\* C20: format_currency returns "$0.00" for every amount that is not a
\* number (None, the empty string, other text, the strings 'nan' and 'inf'),
\* and for a number '$' and the amount with exactly two decimals.
C20_NotANumberGivesZero ==
    Formatted =>
        IF IsNumericAmount(args.amount)
            THEN MoneyValue(out.text) = AmountCents(args.amount)
            ELSE out.text = <<"$","0",".","0","0">>

-----------------------------------------------------------------------------
(* Claims about the workers and the state they share with the main thread  *)

\* a step of a thread that was already started (the handlers of the
\* interactive thread only add threads)
WorkerStep == \E t \in DOMAIN workers : Moved(t)

\* C21: background workers touch no state shared with the interactive
\* thread after they start: no step of a worker writes raw_data,
\* filtered_data, current_images, current_image_index, a widget or a dialog.
C21_WorkersWriteNoSharedState ==
    [][WorkerStep =>
          UNCHANGED <<raw_data, filtered_data, current_images,
                      current_image_index, status, tree, image_view, dialog>>]_vars

\* a worker between its start_loading and its stop_loading
Busy(t) ==
    /\ t \in DOMAIN workers
    /\ workers[t].pc \notin {"start", "done", "notify"}

\* C24: the status is 'Ready' only when no background worker is still
\* running; while at least one worker runs the status is 'Loading...'.
C24_ReadyOnlyWhenIdle ==
    (\E t \in DOMAIN workers : Busy(t)) => status = "Loading..."

-----------------------------------------------------------------------------
(* Claims about a selection made while the sheet is loading                *)

\* the table shows the approved, unpaid rows of the subcontractor
TableShows(name) ==
    /\ filtered_data # None
    /\ LET rows == filter_by_subcontractor(filtered_data, name).out.df
       IN tree = update_table(prepare_display_data(rows).df)

\* the combobox holds the name
HasSelected(name) == selected_subcontractor = name

\* C25: if the user selects a subcontractor at any time, also while the
\* initial load worker is still running, and the load then succeeds, the
\* table eventually shows that subcontractor's approved, unpaid rows (unless
\* the user has selected another one in the meantime).
C25_TableEventuallyShowsSelection ==
    \A name \in GuiNames :
        (HasSelected(name) /\ filtered_data # None)
            ~> (~HasSelected(name) \/ TableShows(name))

-----------------------------------------------------------------------------
(* Claims about selections that overlap                                    *)

\* C22: after any sequence of subcontractor selections, once every
\* load_images worker has finished, current_images holds exactly the images
\* resolved for the most recently selected subcontractor's image URLs, one
\* entry per URL in URL order.
C22_ImagesOfLatestSelection ==
    (/\ ~falsy(selected_subcontractor)
     /\ Started("images") > 0
     /\ \A t \in DOMAIN workers : ~LoadsImages(t))
        => lists[current_images] = Resolved(SelectedUrls)

\* a step in which update_image_display runs: the callback handed to
\* root.after, or a click on one of the image buttons
ShowsImage ==
    \/ /\ after_queue # <<>>
       /\ Head(after_queue).call = "update_image_display"
       /\ after_queue' = Tail(after_queue)
    \/ /\ current_image_index' # current_image_index
       /\ workers' = workers

\* C23: whenever update_image_display indexes current_images (the list is
\* not empty), 0 <= current_image_index < len(current_images).
C23_IndexWithinImages ==
    [][(ShowsImage /\ lists[current_images] # <<>>) =>
          /\ 0 <= current_image_index'
          /\ current_image_index' < Len(lists[current_images])]_vars

-----------------------------------------------------------------------------
(* Claims about refresh_data                                               *)

\* the event loop runs the restore_selection that a refresh handed over
RestoreStep ==
    /\ after_queue # <<>>
    /\ Head(after_queue).call = "restore_selection"
    /\ after_queue' = Tail(after_queue)

\* C26: a refresh never changes which subcontractor is selected: when it
\* completes, the selected subcontractor is still the one the user selected
\* last, also when that happened while the refresh was running.  (The step
\* fills the table with the rows of the name it selects.)
C26_RefreshKeepsSelection ==
    [][RestoreStep => selected_subcontractor' = selected_subcontractor]_vars

=============================================================================
